---- MODULE Spec2Model ----
(***************************************************************************)
(* Reactive node graph of the zen-garden ground plane.                     *)
(*                                                                         *)
(* The model follows src/src/pages/zen-garden-v2/zen-garden/nodes/node.ts  *)
(* (ReactiveNode = combineLatest |> switchMap(process) |> shareReplay(1)), *)
(* src/src/components/zen-garden/nodes/ValueNode.ts (a BehaviorSubject     *)
(* whose setter stores schema.parse(v)) and the graph assembled in         *)
(* src/src/components/zen-garden/Plain.ts.  The rxjs operators are         *)
(* modelled by what rxjs 7 does: Subject.next walks a copy of the observer *)
(* list, combineLatest waits for every input, switchMap drops the previous *)
(* inner subscription, share keeps one connection and resets on error.     *)
(***************************************************************************)
EXTENDS Integers, Sequences, FiniteSets, TLC

\* ------------------------------------------------------------------ bounds
MaxWrites == 3        \* assignments to the ValueNodes per run
MaxNameWrites == 1    \* next() calls on the texture name per run
MaxStreamEmits == 1   \* values one inner stream may emit
MaxNodes == 3         \* nodes constructed per run
MaxSinks == 2         \* length of the sink list handed to buildGraph
StackLimit == 6       \* nested calls the engine's call stack holds
MaxRenders == 2       \* render passes into one node's render target
MaxObjects == 3       \* scene objects constructed per run
MaxChanges == 2       \* width assignments to rake strokes per run

\* ------------------------------------------------------------------ graph
\* Plain.ts:45-49: the three source subjects.
Sources == {"sizeRaw", "tileSize", "textureName"}

\* Plain.ts:47,49: the two sources that are ValueNodes (have a schema).
ValueNodes == {"sizeRaw", "tileSize"}

\* Plain.ts:48-88: the reactive nodes of the texture branch; and, beside
\* the PipeNode baseDisplacement, the MapNode written for the same source
\* and transform (part_018:8-23); and an RxNode (part_018:42-52) wrapping
\* the texture-name subject; and the geometry node (Plain.ts:111-114); and
\* a node constructed with the inputs object {} (node.ts:21).
Nodes == {"size", "textureRepeat", "textureSet", "mappedTexture",
          "baseDisplacement", "baseDisplacementMap", "lifted", "geometry",
          "noInputs"}

\* Plain.ts:48,54-56,74,76-78: input name -> producer, in key order.
Inputs(n) ==
  CASE n = "size"          -> << [name |-> "sizeRaw", from |-> "sizeRaw"] >>
    [] n = "textureRepeat" -> << [name |-> "size", from |-> "size"],
                                 [name |-> "tileSize", from |-> "tileSize"] >>
    [] n = "textureSet"    -> << [name |-> "name", from |-> "textureName"] >>
    [] n = "mappedTexture" -> << [name |-> "textureSet", from |-> "textureSet"],
                                 [name |-> "repeat", from |-> "textureRepeat"] >>
    [] n = "baseDisplacement"    ->
         << [name |-> "source", from |-> "textureSet"] >>
    [] n = "baseDisplacementMap" ->
         << [name |-> "source", from |-> "textureSet"] >>
    [] n = "lifted"        -> << [name |-> "source", from |-> "textureName"] >>
    [] n = "geometry"      -> << [name |-> "size", from |-> "size"] >>
    [] n = "noInputs"      -> << >>

\* node.ts:22: const keys = Object.keys(inputs)
Keys(n) == { Inputs(n)[i].name : i \in 1..Len(Inputs(n)) }

\* node.ts:52-55: what process does.  The MapNodes of Plain.ts return
\* plain values; TextureSetNode.process is async (a promise); a map function
\* may also return a stream (MapNode's signature), taken here for the
\* texture node so that the isObservable branch is exercised.  The map
\* function of the tiled texture set (Plain.ts:79-85) may throw.
ResultKinds(n) ==
  CASE n = "textureSet"    -> {"promise", "stream"}
    [] n = "mappedTexture" -> {"plain", "throw"}
    [] OTHER               -> {"plain"}

\* One choice of result kind for every node, fixed for one step.
KindChoices ==
  { [n \in Nodes |-> CASE n = "textureSet"    -> t
                      [] n = "mappedTexture" -> m
                      [] OTHER               -> CHOOSE k \in ResultKinds(n) : TRUE] :
      t \in ResultKinds("textureSet"), m \in ResultKinds("mappedTexture") }

\* ----------------------------------------------------------------- values
None == <<>>
Some(v) == <<v>>

\* Values a caller may assign to each source.  Objects are records; an
\* object may miss a key or carry an unknown key.
Candidates(src) ==
  CASE src = "sizeRaw"     -> { [x |-> 2, y |-> 1],
                                [x |-> 3, y |-> 1, z |-> 0],
                                [x |-> 4] }
    [] src = "tileSize"    -> { 2, 0 }
    [] src = "textureName" -> { "sand" }

\* Plain.ts:45,47,49: the constructor arguments.
Initial(src) ==
  CASE src = "sizeRaw"     -> [x |-> 1, y |-> 1]
    [] src = "tileSize"    -> 1
    [] src = "textureName" -> "gravel"

\* Plain.ts:47,49: z.object({x: z.int(), y: z.int()}) and
\* z.int().min(1).max(10); textureName is a bare BehaviorSubject.
SchemaAccepts(src, v) ==
  CASE src = "sizeRaw"     -> {"x", "y"} \subseteq DOMAIN v
    [] src = "tileSize"    -> v >= 1 /\ v <= 10
    [] src = "textureName" -> TRUE

\* ValueNode.ts:18: schema.parse(v), the value handed to next().  An
\* object schema returns a new object holding only the declared keys.
SchemaParse(src, v) ==
  CASE src = "sizeRaw"     -> [k \in {"x", "y"} |-> v[k]]
    [] src = "tileSize"    -> v
    [] src = "textureName" -> v

\* --------------------------------------------------------------- observers
\* Application observers (the callbacks handed to subscribe), named in the
\* order in which they subscribe.
Apps == {"o1", "o2"}

Earlier(o) == IF o = "o2" THEN {"o1"} ELSE {}

\* An entry of a subject's observer list: an application callback, or the
\* inner subscriber combineLatest created for input idx of a node.
AppObs(o) == [app |-> o, node |-> "", idx |-> 0]
NodeObs(n, i) == [app |-> "", node |-> n, idx |-> i]

\* ------------------------------------------------------------------ state
VARIABLES
  value,      \* BehaviorSubject._value of every source
  srcObs,     \* observer list of every source subject
  nodeObs,    \* observer list of every node's ReplaySubject
  connected,  \* share(): the node's connection (and subject) exists
  buffer,     \* ReplaySubject(1) buffer of every node
  latest,     \* combineLatest: last value seen per input of every node
  inner,      \* switchMap: the computation the node listens to (0: none)
  comps,      \* computations started by process and not yet settled
  procCount,  \* number of process() calls per node
  prevValues, \* node.ts:46 the snapshot of the latest process() call
  lastOut,    \* the latest value the node ever emitted
  geo,        \* part_010:13 this.geometry, and the geometries disposed
  dropped,    \* computations whose result arrived and was not forwarded
  failures,   \* how many times the output of every node has failed
  disposed,   \* nodes whose dispose() has run
  status,     \* application observer: idle / sub / closed
  target,     \* what the application observer subscribed to
  log,        \* what each application observer received
  stack,      \* Subject.next calls in progress (innermost last)
  accepted,   \* values handed to next() per source, in call order
  since,      \* Len(accepted) of the source when the observer subscribed
  attempt,    \* source and argument of the last setter call
  signal,     \* outcome of the last setter call
  writes,     \* number of setter / next calls made
  debugInputs, \* node.ts:17 the declared inputs of every constructed node
  graph,      \* sinks and outcome of the latest buildGraph call
  regraph,    \* outcome of calling buildGraph once more with those sinks
  renderer,   \* context.textureRenderer: current render target, passes drawn
  lastProcess, \* the latest process() call of a rendering node
  subscriptions, \* Plain.ts:30 the plain's sink subscriptions
  retired,    \* the plain's [Symbol.dispose] has run
  scene,      \* the scene: objects made, $objects, the rakes stream
  editor,     \* the editor: selected object, mode, drag
  lastOp      \* a caller's latest call on the scene or one of its rakes

vars == << value, srcObs, nodeObs, connected, buffer, latest, inner, comps,
           procCount, prevValues, lastOut, geo, dropped, failures, disposed,
           status, target, log, stack,
           accepted, since, attempt, signal, writes, debugInputs, graph,
           regraph, renderer, lastProcess, subscriptions, retired,
           scene, editor, lastOp >>

\* The variables of the data flow, and those of graph introspection.
flowVars == << value, srcObs, nodeObs, connected, buffer, latest, inner,
               comps, procCount, prevValues, lastOut, geo, dropped, failures,
               disposed, status, target, log, stack, accepted, since, attempt, signal,
               writes >>

graphVars == << debugInputs, graph, regraph >>

\* The variables of the shared renderer and of the plain as an owner.
gpuVars == << renderer, lastProcess, subscriptions, retired >>

\* The variables of the scene and its editor.
sceneVars == << scene, editor, lastOp >>

\* The engine state as one record, threaded through the synchronous
\* cascades below.
St == [ value |-> value, srcObs |-> srcObs, nodeObs |-> nodeObs,
        connected |-> connected, buffer |-> buffer, latest |-> latest,
        inner |-> inner, comps |-> comps, procCount |-> procCount,
        prevValues |-> prevValues, lastOut |-> lastOut, geo |-> geo,
        dropped |-> dropped,
        failures |-> failures, disposed |-> disposed,
        status |-> status, log |-> log ]

\* A step of the data flow ends in engine state s; it never touches the
\* declared inputs (node.ts:61 is the only assignment).
Commit(s) ==
  /\ UNCHANGED graphVars
  /\ UNCHANGED gpuVars
  /\ UNCHANGED sceneVars
  /\ value' = s.value
  /\ srcObs' = s.srcObs
  /\ nodeObs' = s.nodeObs
  /\ connected' = s.connected
  /\ buffer' = s.buffer
  /\ latest' = s.latest
  /\ inner' = s.inner
  /\ comps' = s.comps
  /\ procCount' = s.procCount
  /\ prevValues' = s.prevValues
  /\ lastOut' = s.lastOut
  /\ geo' = s.geo
  /\ dropped' = s.dropped
  /\ failures' = s.failures
  /\ disposed' = s.disposed
  /\ status' = s.status
  /\ log' = s.log

EmptyLatest(n) == [i \in 1..Len(Inputs(n)) |-> None]

\* The nodes that render through the shared renderer (ValueNode.ts:102-115,
\* part_014:183-236).
GpuNodes == {"normal", "displacement"}

\* ValueNode.ts:76, part_014:156: the render target a node owns; "screen"
\* is the canvas (a null render target), "ground" a render target of other
\* code using the same renderer (ground-texture.ts:192-195).
OwnTarget(n) == IF n = "normal" THEN "normalTarget" ELSE "displacementTarget"

RenderTargets == {"screen", "ground"} \cup { OwnTarget(n) : n \in GpuNodes }

\* Plain.ts:118-126: the constructor subscribes to the geometry node, then
\* to the material node, and keeps both subscriptions.
SinkSubscriptions ==
  << [to |-> "geometry", closed |-> FALSE],
     [to |-> "material", closed |-> FALSE] >>

\* Variant: the constructor subscribes to the pipe it has built.
SubscribesAtConstructionAlways(n) == TRUE

\* node.ts:31-60: the constructor builds the pipe and hands super() a
\* function that subscribes to it when the node itself is subscribed.
SubscribesAtConstruction(n) == FALSE

\* -------------------------------------------------------- scene and editor
\* Points of the ground plane a ray can meet, and the answer of
\* screenToPlaneCoordinate when it meets none (scene.ts:112-123).
Positions == {1, 2}
NoPos == 0

\* The id fields found in decoded scene data; nothing makes them distinct.
EncodedIds == {1, 2}

\* Editor.ts:76 crypto.randomUUID(): an id no object made so far has.
randomUUID(sc) == 10 + Len(sc.made)

\* scene.ts:133-136 the encoded objects a scene can be built from.
EncodedObjects ==
  [ id : EncodedIds, type : {"rock", "moss", "rakeStroke"},
    position : Positions ]

\* No object (null); objects are referred to by their index in sc.made.
NoObject == 0

\* scene.ts:50 objects.filter(o => o instanceof ZenGardenRakeStroke)
RakesOf(sc, objects) ==
  SelectSeq(objects, LAMBDA o : sc.made[o].type = "rakeStroke")

\* Variant: the stream of the previous list is kept beside the new one.
SubscribedKeeping(sc, rakes) ==
  sc.inner.subscribed \cup
    { rakes[i] : i \in { j \in 1..Len(rakes) : ~sc.made[rakes[j]].disposed } }

\* plain.ts:58 merge(...rakes.map(r => r.$changed)): the subjects the new
\* inner stream listens to; switchMap has unsubscribed the previous inner
\* stream, and a subject that has completed ends its subscription at once.
Subscribed(sc, rakes) ==
  { rakes[i] : i \in { j \in 1..Len(rakes) : ~sc.made[rakes[j]].disposed } }

\* plain.ts:54-63 $rakesChanged receives a list from $rakes: switchMap
\* leaves the previous inner stream for a new one, which emits the list at
\* once (of(rakes), or startWith(null) mapped to rakes); the emission is a
\* new rakes input of the displacement node (plain.ts:81).
RakesNext(sc, rakes) ==
  [sc EXCEPT !.inner = [ rakes |-> rakes, subscribed |-> Subscribed(sc, rakes) ],
             !.rakesIn = Append(@, rakes)]

\* BehaviorSubject.next on $objects: the value is stored and handed to
\* the subscriber, the map of scene.ts:49-51 feeding $rakesChanged.
ObjectsNext(sc, objects) ==
  RakesNext([sc EXCEPT !.objects = objects], RakesOf(sc, objects))

\* scene.ts:81-85 addObject(encoded): deserialize, then
\* $objects.next([...value, obj]).
addObject(sc, encoded) ==
  LET obj == Len(sc.made) + 1
      sc1 == [sc EXCEPT !.made = Append(@,
                [ id |-> encoded.id, type |-> encoded.type,
                  position |-> encoded.position, highlighted |-> FALSE,
                  disposed |-> FALSE ])]
  IN  ObjectsNext(sc1, Append(sc1.objects, obj))

\* scene.ts:88 $objects.value.find(o => o.id === id)
FindById(sc, id) ==
  IF \E i \in 1..Len(sc.objects) : sc.made[sc.objects[i]].id = id
  THEN sc.objects[CHOOSE i \in 1..Len(sc.objects) :
                    /\ sc.made[sc.objects[i]].id = id
                    /\ \A j \in 1..(i - 1) : sc.made[sc.objects[j]].id # id]
  ELSE NoObject

\* rock, moss, rake-stroke dispose(): the object is released; a rake
\* stroke completes its $changed (part_005:60-64), which ends the
\* subscription merge holds on it.
DisposeObject(sc, obj) ==
  [sc EXCEPT !.made[obj].disposed = TRUE,
             !.inner.subscribed = @ \ {obj}]

\* scene.ts:87-93 deleteObject(id)
deleteObject(sc, id) ==
  LET obj == FindById(sc, id)
  IN  IF obj = NoObject THEN sc
      ELSE LET sc1 == DisposeObject(sc, obj)
           IN  ObjectsNext(sc1, SelectSeq(sc1.objects,
                                          LAMBDA o : sc1.made[o].id # id))

\* part_005:46-50 set width(value): $changed.next(); a completed subject
\* emits nothing, and the emission reaches the displacement node through
\* the inner stream that listens to this rake, mapped to that stream's list.
SetWidth(sc, r) ==
  IF ~sc.made[r].disposed /\ r \in sc.inner.subscribed
  THEN [sc EXCEPT !.rakesIn = Append(@, sc.inner.rakes)]
  ELSE sc

\* A scene before its constructor adds the decoded objects: the plain is
\* constructed and subscribed first (scene.ts:52, plain.ts:106-113), so
\* $rakesChanged has received the empty list of $objects.
EmptyScene ==
  RakesNext([ made |-> <<>>, objects |-> <<>>,
              inner |-> [ rakes |-> <<>>, subscribed |-> {} ],
              rakesIn |-> <<>> ], <<>>)

RECURSIVE AddAll(_, _, _)
\* scene.ts:56-58 for (const e of encoded.objects) this.addObject(e)
AddAll(sc, objects, i) ==
  IF i > Len(objects) THEN sc
  ELSE AddAll(addObject(sc, objects[i]), objects, i + 1)

\* scene.ts:25-59 new ZenGardenScene(encoded, renderer)
NewScene(objects) == AddAll(EmptyScene, objects, 1)

\* Editor.ts:18-22 the fields of a new editor.
NewEditor == [ selected |-> NoObject, mode |-> "null", dragging |-> None ]

\* scene.ts:100-110 hitTest: the first object of $objects.value the ray
\* meets; the ray meets the objects that lie at the point it reaches.
hitTest(sc, pos) ==
  IF \E i \in 1..Len(sc.objects) : sc.made[sc.objects[i]].position = pos
  THEN sc.objects[CHOOSE i \in 1..Len(sc.objects) :
                    /\ sc.made[sc.objects[i]].position = pos
                    /\ \A j \in 1..(i - 1) :
                         sc.made[sc.objects[j]].position # pos]
  ELSE NoObject

\* Variant: only the previous selection is told.
HighlightPairPrevOnly(sc, prev, curr) ==
  IF prev # NoObject THEN [sc EXCEPT !.made[prev].highlighted = FALSE] ELSE sc

\* Editor.ts:49-52 the subscriber of pairwise(): prev?.setHighlight(false),
\* then curr?.setHighlight(true).
HighlightPair(sc, prev, curr) ==
  LET sc1 == IF prev # NoObject
             THEN [sc EXCEPT !.made[prev].highlighted = FALSE] ELSE sc
  IN  IF curr # NoObject
      THEN [sc1 EXCEPT !.made[curr].highlighted = TRUE] ELSE sc1

\* _$selectedObject.next(curr): the value is stored and the highlight
\* subscriber gets the pair (previous value, curr).
Select(sc, ed, curr) ==
  [ sc |-> HighlightPair(sc, ed.selected, curr),
    ed |-> [ed EXCEPT !.selected = curr] ]

\* The object types the add modes make (Editor.ts:80-97).
AddedType(mode) == IF mode = "addRock" THEN "rock" ELSE "moss"

\* Variant: the add mode stays on.
ModeAfterAddKept(mode) == mode

\* Editor.ts:82, 96 this._$mode.next(null)
ModeAfterAdd(mode) == "null"

\* Editor.ts:70-106 handleMouseDown for a ray that reaches pos.
handleMouseDown(sc, ed, pos) ==
  IF pos # NoPos /\ ed.mode # "null"
  THEN [ sc |-> addObject(sc, [ id |-> randomUUID(sc),
                                type |-> AddedType(ed.mode),
                                position |-> pos ]),
         ed |-> [ed EXCEPT !.mode = ModeAfterAdd(ed.mode)] ]
  ELSE LET hit == hitTest(sc, pos)
       IN  IF hit # NoObject /\ pos # NoPos
           THEN Select(sc, [ed EXCEPT !.dragging =
                                        Some([object |-> hit, lastPos |-> pos])],
                       hit)
           ELSE [ sc |-> sc, ed |-> ed ]

\* Editor.ts:108-119 handleMouseMove: rocks and moss move by the delta
\* (part_004:33-35, part_016:36-38); a rake stroke has no move method
\* (part_005), the call throws and lastPos keeps its value.
handleMouseMove(sc, ed, pos) ==
  IF ed.dragging = None \/ pos = NoPos THEN [ sc |-> sc, ed |-> ed ]
  ELSE LET d == ed.dragging[1]
       IN  IF sc.made[d.object].type = "rakeStroke"
           THEN [ sc |-> sc, ed |-> ed ]
           ELSE [ sc |-> [sc EXCEPT !.made[d.object].position =
                                      @ + (pos - d.lastPos)],
                  ed |-> [ed EXCEPT !.dragging =
                                      Some([d EXCEPT !.lastPos = pos])] ]

\* Variant: the selection is kept whatever is deleted.
ClearsSelectionNever(sc, ed, id) == FALSE

\* Editor.ts:155 this._$selectedObject.value?.id === id
ClearsSelection(sc, ed, id) ==
  ed.selected # NoObject /\ sc.made[ed.selected].id = id

\* Editor.ts:154-159 deleteObject(id)
editorDeleteObject(sc, ed, id) ==
  LET r == IF ClearsSelection(sc, ed, id) THEN Select(sc, ed, NoObject)
           ELSE [ sc |-> sc, ed |-> ed ]
  IN  [ sc |-> deleteObject(r.sc, id), ed |-> r.ed ]

\* The state once the plain is constructed with the given initial values
\* (ValueNode.ts:10 super(initial) stores the argument as it is) and the
\* scene around it from the given decoded objects.
InitWith(initial, objects) ==
  /\ value = initial
  /\ srcObs = [s \in Sources |-> <<>>]
  /\ nodeObs = [n \in Nodes |-> <<>>]
  /\ connected = [n \in Nodes |-> SubscribesAtConstruction(n)]
  /\ buffer = [n \in Nodes |-> None]
  /\ latest = [n \in Nodes |-> EmptyLatest(n)]
  /\ inner = [n \in Nodes |-> 0]
  /\ comps = [n \in Nodes |-> {}]
  /\ procCount = [n \in Nodes |-> 0]
  /\ prevValues = [n \in Nodes |-> None]
  /\ lastOut = [n \in Nodes |-> None]
  /\ geo = [ current |-> 0, disposed |-> {} ]
  /\ dropped = [n \in Nodes |-> {}]
  /\ failures = [n \in Nodes |-> 0]
  /\ disposed = {}
  /\ status = [o \in Apps |-> "idle"]
  /\ target = [o \in Apps |-> ""]
  /\ log = [o \in Apps |-> <<>>]
  /\ stack = <<>>
  /\ accepted = [s \in Sources |-> <<>>]
  /\ since = [o \in Apps |-> 0]
  /\ attempt = None
  /\ signal = "none"
  /\ writes = 0
  /\ debugInputs = <<>>
  /\ graph = None
  /\ regraph = None
  /\ renderer = [ target |-> "screen",
                  frames |-> [n \in GpuNodes |-> 0] ]
  /\ lastProcess = None
  /\ subscriptions = SinkSubscriptions
  /\ retired = FALSE
  /\ scene = NewScene(objects)
  /\ editor = NewEditor
  /\ lastOp = [ op |-> "new", arg |-> 0, widths |-> 0 ]

\* The plain beside a scene that holds no object.
InitFrom(initial) == InitWith(initial, <<>>)

Init == InitFrom([s \in Sources |-> Initial(s)])

\* Initial values a caller may construct the sources with: Plain.ts:47
\* hands encoded.size, whatever the decoded data holds, to the constructor;
\* a ValueNode as such takes any initial value.
InitialChoices ==
  { [s \in Sources |-> CASE s = "sizeRaw" -> a [] s = "tileSize" -> b
                         [] OTHER -> Initial(s)] :
      a \in {Initial("sizeRaw"), [x |-> 4]}, b \in {Initial("tileSize"), 0} }

InitAny == \E initial \in InitialChoices : InitFrom(initial)

\* The decoded object lists a scene is constructed from (scene.ts:56-58).
\* The editor handles every object through one interface (object.ts:5-12),
\* so a decoded rock stands for the other types, and decoded objects lie at
\* one point: dragging takes them to the others.
EncodedScenes ==
  UNION { [1..k -> { e \in EncodedObjects :
                       e.type = "rock" /\ e.position = 1 }] :
            k \in 0..(MaxObjects - 1) }

InitScene ==
  \E objects \in EncodedScenes :
    InitWith([s \in Sources |-> Initial(s)], objects)

\* ----------------------------------------------------------------- engine
IndexOf(n, nm) == CHOOSE i \in 1..Len(Inputs(n)) : Inputs(n)[i].name = nm

IsObserver(obs, ob) == \E i \in 1..Len(obs) : obs[i] = ob

Without(obs, ob) == SelectSeq(obs, LAMBDA e : e # ob)

\* node.ts:33: const named = Object.fromEntries(keys.map((k, i) => [k, values[i]]))
\* An input that has no value yet leaves its key without a value.
Snapshot(s, n) ==
  [nm \in { k \in Keys(n) : s.latest[n][IndexOf(n, k)] # None } |->
     s.latest[n][IndexOf(n, nm)][1]]

\* Plain.ts:88 the transform t => t.displacement, as a function of its
\* argument.
Transform(t) == [fn |-> "displacement", of |-> t]

\* Variant: the transform is handed the inputs object.
PipeArgInputs(inputs) == inputs

\* part_018:35 this.transform(inputs.source)
PipeArg(inputs) == inputs.source

\* Variant: the RxNode answers every snapshot with the same value.
RxResultFixed(inputs) == "gravel"

\* part_018:48 return inputs.source
RxResult(inputs) == inputs.source

\* part_018:19,35,48 what process computes from the snapshot: PipeNode
\* applies its transform to inputs.source, the MapNode applies its map
\* function ({source}) => transform(source) to the inputs, RxNode returns
\* inputs.source; any other node's result is some function of the whole
\* snapshot.
Process(n, snap) ==
  CASE n = "baseDisplacement"    -> Transform(PipeArg(snap))
    [] n = "baseDisplacementMap" -> Transform(snap.source)
    [] n = "lifted"              -> RxResult(snap)
    [] OTHER                     -> [fn |-> n, of |-> snap]

\* The value process() computes from a snapshot: a fresh object per call
\* (gen), per emission of a stream (k), determined by the inputs (in).
Output(n, g, k, snap) ==
  [node |-> n, gen |-> g, k |-> k, in |-> snap, out |-> Process(n, snap)]

\* An observer's next callback records the value.
LogNext(s, o, v) ==
  [s EXCEPT !.log[o] = Append(@, [t |-> "next", v |-> Some(v)])]

\* An observer's error callback; the subscriber is closed afterwards.
LogError(s, o) ==
  [s EXCEPT !.log[o] = Append(@, [t |-> "error", v |-> None]),
            !.status[o] = "closed"]

\* An observer's complete callback; the subscriber is closed afterwards.
LogComplete(s, o) ==
  [s EXCEPT !.log[o] = Append(@, [t |-> "complete", v |-> None]),
            !.status[o] = "closed"]

\* Variant: emits as soon as some input has a value.
ReadyAny(s, n) == \E j \in 1..Len(Inputs(n)) : s.latest[n][j] # None

\* node.ts:31 combineLatest: emits once no input is still without a value.
Ready(s, n) == \A j \in 1..Len(Inputs(n)) : s.latest[n][j] # None

\* Variant: while a computation is pending, those started after it are not
\* listened to (exhaustMap).
IsActiveOldest(s, n, g) == \A c \in s.comps[n] : c.gen >= g

\* Variant: every inner subscription is kept (mergeMap).
IsActiveAlways(s, n, g) == TRUE

\* node.ts:32 switchMap: only the current inner subscription is forwarded.
IsActive(s, n, g) == s.inner[n] = g

\* Variant: every subscriber gets a subscription to the source of its own.
ShouldConnectAlways(s, n) == TRUE

\* node.ts:57 shareReplay(1) -> share(): if (!connection && refCount > 0)
ShouldConnect(s, n) == ~s.connected[n]

\* Unsubscribing the connection of n: its combineLatest leaves the
\* observer lists of its inputs, the inner subscription is dropped, and
\* share's reset() forgets subject and connection.
Teardown(s, n) ==
  [s EXCEPT
     !.srcObs = [p \in Sources |->
                   SelectSeq(s.srcObs[p], LAMBDA e : e.node # n)],
     !.nodeObs = [m \in Nodes |->
                   IF m = n THEN <<>>
                   ELSE SelectSeq(s.nodeObs[m], LAMBDA e : e.node # n)],
     !.connected[n] = FALSE,
     !.buffer[n] = None,
     !.latest[n] = EmptyLatest(n),
     !.inner[n] = 0]

RECURSIVE CombineNext(_, _, _, _, _)
RECURSIVE RunProcess(_, _, _)
RECURSIVE NodeNext(_, _, _, _)
RECURSIVE DeliverNode(_, _, _, _, _)
RECURSIVE NodeError(_, _)
RECURSIVE ErrorAll(_, _)
RECURSIVE SubscribeNode(_, _, _, _)
RECURSIVE ConnectInputs(_, _, _, _)

\* Variant: an emission equal to the input's previous one is skipped
\* (distinctUntilChanged).
ForwardsIfChanged(s, n, i, v) == s.latest[n][i] # Some(v)

\* node.ts:31-32 combineLatest hands every emission of an input on to
\* switchMap: the pipe holds no filter.
Forwards(s, n, i, v) == TRUE

\* node.ts:31 combineLatest: input i of node n delivered v.
CombineNext(s, n, i, v, rk) ==
  LET s1 == [s EXCEPT !.latest[n][i] = Some(v)]
  IN  IF Ready(s1, n) /\ Forwards(s, n, i, v) THEN RunProcess(s1, n, rk)
      ELSE s1

\* Variant: a plain result is handed on later, like a promise's.
EmitsAtOnceNever(kind) == FALSE

\* node.ts:55 of(result) emits the plain result while switchMap subscribes
\* to it.
EmitsAtOnce(kind) == kind = "plain"

\* Variant: the previous geometry is left as it is.
DisposePreviousNever(g) == g.disposed

\* part_010:27, 37 this.geometry?.dispose()
DisposePrevious(g) ==
  IF g.current = 0 THEN g.disposed ELSE g.disposed \cup {g.current}

\* part_010:26-33 the body of StaticPlainGeometryNode.process, call number
\* gen: the geometry kept in this.geometry is disposed, then a new one is
\* made and kept; a geometry is named by the call that made it.
OwnGeometry(s, n, gen) ==
  IF n = "geometry"
  THEN [s EXCEPT !.geo = [ current |-> gen, disposed |-> DisposePrevious(@) ]]
  ELSE s

\* node.ts:32-56 switchMap project: drop the previous inner subscription,
\* call process(context, named), subscribe to of(result), from(promise) or
\* the returned stream.
RunProcess(s, n, rk) ==
  LET g == s.procCount[n] + 1
      snap == Snapshot(s, n)
      s1 == OwnGeometry([s EXCEPT !.procCount[n] = g,
                                  !.prevValues[n] = Some(snap),
                                  !.inner[n] = 0], n, g)
  IN  IF EmitsAtOnce(rk[n])
      THEN NodeNext(s1, n, Output(n, g, 0, snap), rk)
      ELSE IF rk[n] = "throw"
      THEN NodeError(s1, n)
      ELSE [s1 EXCEPT !.inner[n] = g,
                      !.comps[n] = @ \cup { [gen |-> g, kind |-> rk[n],
                                             snap |-> snap, k |-> 0] }]

\* node.ts:57 ReplaySubject(1).next: keep v, hand it to a copy of the
\* observer list.
NodeNext(s, n, v, rk) ==
  DeliverNode([s EXCEPT !.buffer[n] = Some(v), !.lastOut[n] = Some(v)],
              n, s.nodeObs[n], v, rk)

DeliverNode(s, n, todo, v, rk) ==
  IF todo = <<>> THEN s
  ELSE LET ob == Head(todo)
           s1 == IF ~IsObserver(s.nodeObs[n], ob) THEN s
                 ELSE IF ob.app # "" THEN LogNext(s, ob.app, v)
                 ELSE CombineNext(s, ob.node, ob.idx, v, rk)
       IN  DeliverNode(s1, n, Tail(todo), v, rk)

\* node.ts:57 share(): the source failed.  reset() runs first
\* (resetOnError), then the old subject's observers get the error.
NodeError(s, n) ==
  ErrorAll([Teardown(s, n) EXCEPT !.failures[n] = @ + 1], s.nodeObs[n])

ErrorAll(s, todo) ==
  IF todo = <<>> THEN s
  ELSE LET ob == Head(todo)
           s1 == IF ob.app # "" THEN LogError(s, ob.app)
                 ELSE IF s.connected[ob.node] THEN NodeError(s, ob.node)
                 ELSE s
       IN  ErrorAll(s1, Tail(todo))

RECURSIVE CompleteAll(_, _)
\* Subject.complete: every observer of the list gets complete.  (The
\* observers of the node without inputs are application observers: no
\* node reads it.)
CompleteAll(s, todo) ==
  IF todo = <<>> THEN s
  ELSE CompleteAll(IF Head(todo).app # "" THEN LogComplete(s, Head(todo).app)
                   ELSE s,
                   Tail(todo))

\* Variant: combineLatest of no streams emits the empty list once.
EmptyCombineEmits(s, n, rk) == RunProcess(s, n, rk)

\* node.ts:31 combineLatest([]) is from([]): it completes when subscribed
\* without a value, so switchMap calls nothing and completes, and share()
\* drops the connection and completes the subject.  (A later subscriber is
\* completed by the completed subject, the same outcome.)
EmptyCombine(s, n, rk) ==
  CompleteAll([s EXCEPT !.nodeObs[n] = <<>>, !.connected[n] = FALSE],
              s.nodeObs[n])

\* node.ts:60 subscribe -> share(): join the subject (which replays its
\* buffer), then connect the source if there is no connection.
SubscribeNode(s, n, ob, rk) ==
  LET s1 == [s EXCEPT !.nodeObs[n] = Append(@, ob)]
      s2 == IF s.buffer[n] = None THEN s1
            ELSE IF ob.app # "" THEN LogNext(s1, ob.app, s.buffer[n][1])
            ELSE CombineNext(s1, ob.node, ob.idx, s.buffer[n][1], rk)
  IN  IF ShouldConnect(s, n)
      THEN IF Inputs(n) = << >>
           THEN EmptyCombine([s2 EXCEPT !.connected[n] = TRUE], n, rk)
           ELSE ConnectInputs([s2 EXCEPT !.connected[n] = TRUE], n, 1, rk)
      ELSE s2

\* node.ts:31 combineLatest subscribes to its inputs in key order; a
\* BehaviorSubject hands over its current value at once.
ConnectInputs(s, n, i, rk) ==
  IF i > Len(Inputs(n)) \/ ~s.connected[n] THEN s
  ELSE LET p == Inputs(n)[i].from
           ob == NodeObs(n, i)
           s1 == IF p \in Sources
                 THEN CombineNext([s EXCEPT !.srcObs[p] = Append(@, ob)],
                                  n, i, s.value[p], rk)
                 ELSE SubscribeNode(s, p, ob, rk)
       IN  ConnectInputs(s1, n, i + 1, rk)

\* ----------------------------------------------------------------- sources
\* ValueNode.ts:18: parse throws on a value the schema rejects; a bare
\* BehaviorSubject has no schema.
Accepts(src, v) == src \notin ValueNodes \/ SchemaAccepts(src, v)

\* Variant: next(v) runs whether or not the schema accepts v.
NextCalledAlways(src, v) == TRUE

\* ValueNode.ts:18: next() is the outer call, so it is reached only when
\* parse has returned.
NextCalled(src, v) == Accepts(src, v)

\* Variant: next(v) with the caller's value instead of the parsed one.
StoredRaw(src, v) == v

\* ValueNode.ts:18: the argument of next().
Stored(src, v) ==
  IF src \in ValueNodes /\ SchemaAccepts(src, v) THEN SchemaParse(src, v)
  ELSE v

\* BehaviorSubject.next: this._value = value, before the observers run.
SetValue(s, src, v) == [s EXCEPT !.value[src] = v]

\* Subject.next: a subscriber that was closed meanwhile ignores next.
Delivered(s, src, ob) == IsObserver(s.srcObs[src], ob)

RECURSIVE Unwind(_)
\* A next() call returns when it has walked its copy of the observers.
Unwind(stk) ==
  IF stk = <<>> \/ stk[Len(stk)].todo # <<>> THEN stk
  ELSE Unwind(SubSeq(stk, 1, Len(stk) - 1))

\* Subject.next: const copy = observers.slice()
Frame(src, v, obs) == [src |-> src, val |-> v, todo |-> obs]

Top == stack[Len(stack)]

\* The stack once the innermost next() has moved past its current observer.
Advanced == [stack EXCEPT ![Len(stack)].todo = Tail(@)]

\* ValueNode.ts:17-19 `node.value = v` (or next(v) on the bare subject),
\* called from state s with the next() calls stk in progress.
Setter(s, stk, src, v) ==
  /\ writes' = writes + 1
  /\ attempt' = Some([src |-> src, v |-> Some(v)])
  /\ signal' = IF Accepts(src, v) THEN "ok" ELSE "ZodError"
  /\ IF NextCalled(src, v)
     THEN /\ Commit(SetValue(s, src, Stored(src, v)))
          /\ accepted' = [accepted EXCEPT ![src] = Append(@, Stored(src, v))]
          /\ stack' = Unwind(Append(stk, Frame(src, Stored(src, v),
                                               s.srcObs[src])))
     ELSE /\ Commit(s)
          /\ accepted' = accepted
          /\ stack' = Unwind(stk)

\* ----------------------------------------------------------------- actions
\* A caller assigns v to a source (ValueNode.ts:17-19).
Write(src, v) ==
  /\ stack = <<>>
  /\ writes < (IF src \in ValueNodes THEN MaxWrites ELSE MaxNameWrites)
  /\ Setter(St, stack, src, v)
  /\ UNCHANGED << target, since >>

\* node.next(v): ValueNode inherits the public next() of BehaviorSubject
\* (ValueNode.ts:4), which stores and emits v as it is.
SubjectNext(src, v) ==
  /\ stack = <<>>
  /\ writes < MaxWrites
  /\ writes' = writes + 1
  /\ Commit(SetValue(St, src, v))
  /\ accepted' = [accepted EXCEPT ![src] = Append(@, v)]
  /\ stack' = Unwind(Append(stack, Frame(src, v, srcObs[src])))
  /\ UNCHANGED << target, since, attempt, signal >>

\* Subject.next hands the value to the next observer of its copy, here the
\* combineLatest subscriber of a node (node.ts:31).
DeliverInput(rk) ==
  /\ stack # <<>>
  /\ Head(Top.todo).app = ""
  /\ LET ob == Head(Top.todo)
     IN  Commit(IF Delivered(St, Top.src, ob)
                THEN CombineNext(St, ob.node, ob.idx, Top.val, rk)
                ELSE St)
  /\ stack' = Unwind(Advanced)
  /\ UNCHANGED << target, accepted, since, attempt, signal, writes >>

\* ... or to an application callback that only records the value.
DeliverApp ==
  /\ stack # <<>>
  /\ Head(Top.todo).app # ""
  /\ LET ob == Head(Top.todo)
     IN  Commit(IF Delivered(St, Top.src, ob)
                THEN LogNext(St, ob.app, Top.val) ELSE St)
  /\ stack' = Unwind(Advanced)
  /\ UNCHANGED << target, accepted, since, attempt, signal, writes >>

\* ... or to an application callback that assigns the source again.
DeliverAppWrite(v) ==
  /\ stack # <<>>
  /\ Head(Top.todo).app # ""
  /\ Delivered(St, Top.src, Head(Top.todo))
  /\ writes < MaxWrites
  /\ Setter(LogNext(St, Head(Top.todo).app, Top.val), Advanced, Top.src, v)
  /\ UNCHANGED << target, since >>

\* ... or to an application callback that unsubscribes observer o2.
DeliverAppUnsubscribe(o2) ==
  /\ stack # <<>>
  /\ Head(Top.todo).app # ""
  /\ Delivered(St, Top.src, Head(Top.todo))
  /\ status[o2] = "sub" /\ target[o2] = Top.src
  /\ LET s1 == LogNext(St, Head(Top.todo).app, Top.val)
     IN  Commit([s1 EXCEPT !.srcObs[Top.src] = Without(@, AppObs(o2)),
                           !.status[o2] = "closed"])
  /\ stack' = Unwind(Advanced)
  /\ UNCHANGED << target, accepted, since, attempt, signal, writes >>

\* The source whose writes an observer of t follows: t itself, or the one
\* source a single-input node reads.
Feed(t) ==
  IF t \in Sources THEN t
  ELSE IF Len(Inputs(t)) = 1 /\ Inputs(t)[1].from \in Sources
  THEN Inputs(t)[1].from
  ELSE ""

\* node.subscribe(callback) / subject.subscribe(callback); a
\* BehaviorSubject hands over its current value at once.
Subscribe(o, t, rk) ==
  /\ stack = <<>>
  /\ status[o] = "idle"
  /\ \A e \in Earlier(o) : status[e] # "idle"
  /\ LET s0 == [St EXCEPT !.status[o] = "sub"]
     IN  Commit(IF t \in Sources
                THEN LogNext([s0 EXCEPT !.srcObs[t] = Append(@, AppObs(o))],
                             o, s0.value[t])
                ELSE SubscribeNode(s0, t, AppObs(o), rk))
  /\ target' = [target EXCEPT ![o] = t]
  /\ since' = [since EXCEPT ![o] = IF Feed(t) \in Sources
                                   THEN Len(accepted[Feed(t)]) ELSE 0]
  /\ UNCHANGED << stack, accepted, attempt, signal, writes >>

\* pipe.subscribe(cb1); map.subscribe(cb2): the two nodes under comparison
\* get their observers one right after the other.
SubscribeBoth(rk) ==
  /\ stack = <<>>
  /\ status["o1"] = "idle" /\ status["o2"] = "idle"
  /\ LET s1 == SubscribeNode([St EXCEPT !.status["o1"] = "sub"],
                             "baseDisplacement", AppObs("o1"), rk)
         s2 == SubscribeNode([s1 EXCEPT !.status["o2"] = "sub"],
                             "baseDisplacementMap", AppObs("o2"), rk)
     IN  Commit(s2)
  /\ target' = [o \in Apps |-> IF o = "o1" THEN "baseDisplacement"
                               ELSE "baseDisplacementMap"]
  /\ UNCHANGED << stack, accepted, since, attempt, signal, writes >>

\* ... and lose them one right after the other.
UnsubscribeBoth ==
  /\ stack = <<>>
  /\ status["o1"] = "sub" /\ status["o2"] = "sub"
  /\ Commit([St EXCEPT
       !.status = [o \in Apps |-> "closed"],
       !.nodeObs = [m \in Nodes |->
                     SelectSeq(St.nodeObs[m], LAMBDA e : e.app = "")]])
  /\ UNCHANGED << target, stack, accepted, since, attempt, signal, writes >>

\* The node's dispose() body: part_018:22,38 and part_008:38 are empty, so
\* the call changes nothing the data flow reads; the geometry node's
\* disposes the geometry it keeps (part_010:36-38).
RunDispose(s, n) ==
  [s EXCEPT !.disposed = @ \cup {n},
            !.geo.disposed = IF n = "geometry" THEN DisposePrevious(s.geo)
                             ELSE @]

\* Variant: the last subscriber leaving ends the node's connection
\* (shareReplay with refCount).
FinalizeRefCount(s, t) ==
  IF t \in Nodes /\ s.nodeObs[t] = <<>> THEN Teardown(s, t) ELSE s

\* Variant: the last subscriber leaving disposes the node.
FinalizeDisposing(s, t) ==
  IF t \in Nodes /\ ~\E i \in 1..Len(s.nodeObs[t]) : s.nodeObs[t][i].app # ""
  THEN RunDispose(s, t) ELSE s

\* node.ts:60: what unsubscribing from a node runs is the teardown of
\* source$.subscribe(subscriber), nothing of the node itself.
Finalize(s, t) == s

\* subscription.unsubscribe(); share() keeps the connection (refCount is
\* off for shareReplay(1)).
Unsubscribe(o) ==
  /\ stack = <<>>
  /\ status[o] = "sub"
  /\ Commit(Finalize([St EXCEPT
       !.status[o] = "closed",
       !.srcObs = [p \in Sources |-> Without(St.srcObs[p], AppObs(o))],
       !.nodeObs = [m \in Nodes |-> Without(St.nodeObs[m], AppObs(o))]],
       target[o]))
  /\ UNCHANGED << target, stack, accepted, since, attempt, signal, writes >>

\* node.dispose(), or node[Symbol.dispose]() which calls it (node.ts:66-70).
Dispose(n) ==
  /\ stack = <<>>
  /\ Commit(RunDispose(St, n))
  /\ UNCHANGED << target, stack, accepted, since, attempt, signal, writes >>

Settle(s, n, c) == [s EXCEPT !.comps[n] = @ \ {c}]

\* The result of c arrives after switchMap has left c: nobody listens.
Drop(s, n, c) ==
  [s EXCEPT !.dropped[n] = @ \cup {[gen |-> c.gen, kind |-> c.kind]}]

\* node.ts:53 from(promise): the promise of computation c resolves.
Resolve(n, c, rk) ==
  /\ stack = <<>>
  /\ c \in comps[n] /\ c.kind = "promise"
  /\ Commit(IF IsActive(St, n, c.gen)
            THEN NodeNext([Settle(St, n, c) EXCEPT !.inner[n] = 0], n,
                          Output(n, c.gen, 0, c.snap), rk)
            ELSE Drop(Settle(St, n, c), n, c))
  /\ UNCHANGED << target, stack, accepted, since, attempt, signal, writes >>

\* part_008:23-25: a texture fails to load, the promise rejects.
Reject(n, c) ==
  /\ stack = <<>>
  /\ c \in comps[n] /\ c.kind = "promise"
  /\ Commit(IF IsActive(St, n, c.gen)
            THEN NodeError(Settle(St, n, c), n)
            ELSE Settle(St, n, c))
  /\ UNCHANGED << target, stack, accepted, since, attempt, signal, writes >>

\* node.ts:54: the stream returned by process emits its next value.
StreamEmit(n, c, rk) ==
  /\ stack = <<>>
  /\ c \in comps[n] /\ c.kind = "stream" /\ c.k < MaxStreamEmits
  /\ LET s1 == [St EXCEPT !.comps[n] = (@ \ {c}) \cup {[c EXCEPT !.k = @ + 1]}]
     IN  Commit(IF IsActive(St, n, c.gen)
                THEN NodeNext(s1, n, Output(n, c.gen, c.k + 1, c.snap), rk)
                ELSE Drop(s1, n, c))
  /\ UNCHANGED << target, stack, accepted, since, attempt, signal, writes >>

\* node.ts:54: the stream returned by process fails.
StreamError(n, c) ==
  /\ stack = <<>>
  /\ c \in comps[n] /\ c.kind = "stream"
  /\ Commit(IF IsActive(St, n, c.gen)
            THEN NodeError(Settle(St, n, c), n)
            ELSE Settle(St, n, c))
  /\ UNCHANGED << target, stack, accepted, since, attempt, signal, writes >>

\* node.ts:54: the stream returned by process completes.
StreamComplete(n, c) ==
  /\ stack = <<>>
  /\ c \in comps[n] /\ c.kind = "stream"
  /\ Commit(IF IsActive(St, n, c.gen)
            THEN [Settle(St, n, c) EXCEPT !.inner[n] = 0]
            ELSE Settle(St, n, c))
  /\ UNCHANGED << target, stack, accepted, since, attempt, signal, writes >>

\* ----------------------------------------------------- graph introspection
\* An input that is not a ReactiveNode (a BehaviorSubject, a ValueNode, any
\* other stream).  Constructed nodes are numbered 1, 2, ... in the order of
\* their construction.
Subject == 0

\* NodeInfo | null (graph.ts:8).
Null == 0

\* Input names, in the key order of the inputs object.
InputNames == << "a", "b" >>

\* Variant: no input is recognised as a node.
IsReactiveNodeNever(p) == FALSE

\* node.ts:76-78 isReactiveNode(obs): the marker field is true.
IsReactiveNode(p) == p # Subject

\* Variant: a constructor may be handed the node under construction.
PassableAny(d) == (1..(Len(d) + 1)) \cup {Subject}

\* node.ts:21 the streams that can be handed to a constructor are those
\* that exist when it is called.
Passable(d) == (1..Len(d)) \cup {Subject}

\* node.ts:22-29 the inputs object: names in key order, each with a stream.
InputChoices(P) ==
  UNION { { [i \in 1..k |-> [name |-> InputNames[i], from |-> f[i]]] :
              f \in [1..k -> P] } : k \in 0..Len(InputNames) }

\* Map.prototype.set on a map kept as a sequence of entries in insertion
\* order: an existing key keeps its place.
MapSet(m, k, v) ==
  IF \E i \in 1..Len(m) : m[i].name = k
  THEN [i \in 1..Len(m) |-> IF m[i].name = k THEN [name |-> k, info |-> v]
                             ELSE m[i]]
  ELSE Append(m, [name |-> k, info |-> v])

\* Variant: the counter is kept from one call to the next.
FirstIdCarried == IF graph = None THEN 0 ELSE Len(graph[1].out.heap)

\* graph.ts:16 let idCounter = 0, a local of the call.
FirstId == 0

\* graph.ts:15-16: visited is empty, idCounter is 0; heap holds the
\* NodeInfo objects created so far (a NodeInfo reference is its index).
NewBuild(d) ==
  [ heap |-> <<>>, visited |-> [n \in 1..Len(d) |-> Null],
    idCounter |-> FirstId, overflow |-> FALSE ]

\* Variant: the memo is never consulted.
VisitedHasNever(t, node) == FALSE

\* graph.ts:20 visited.has(node)
VisitedHas(t, node) == t.visited[node] # Null

RECURSIVE traverse(_, _, _)
RECURSIVE traverseInputs(_, _, _, _, _)

\* graph.ts:19-42 traverse(node): the build state afterwards and the
\* NodeInfo returned.
traverse(d, t, node) ==
  IF VisitedHas(t, node)
  THEN [t |-> t, info |-> t.visited[node]]
  ELSE LET ref == Len(t.heap) + 1
           info == [ id |-> t.idCounter, node |-> node, inputs |-> <<>>,
                     depth |-> 0 ]
           t1 == [t EXCEPT !.heap = Append(@, info),
                           !.idCounter = @ + 1,
                           !.visited[node] = ref]
       IN  [t |-> traverseInputs(d, t1, ref, node, 1), info |-> ref]

\* graph.ts:33-39 the forEach over node.debugInputs.entries().
traverseInputs(d, t, ref, node, i) ==
  IF i > Len(d[node]) THEN t
  ELSE LET e == d[node][i]
           r == IF IsReactiveNode(e.from) THEN traverse(d, t, e.from)
                ELSE [t |-> t, info |-> Null]
       IN  traverseInputs(
             d, [r.t EXCEPT !.heap[ref].inputs = MapSet(@, e.name, r.info)],
             ref, node, i + 1)

RECURSIVE traverseSinks(_, _, _, _)
\* graph.ts:44-46
traverseSinks(d, t, sinks, i) ==
  IF i > Len(sinks) THEN t
  ELSE traverseSinks(d, traverse(d, t, sinks[i]).t, sinks, i + 1)

\* Variant: the depth of the latest visit is kept.
DeeperAlways(depth, current) == TRUE

\* graph.ts:50 if (depth > info.depth)
Deeper(depth, current) == depth > current

RECURSIVE computeDepth(_, _, _, _)
RECURSIVE computeDepthInputs(_, _, _, _)

\* graph.ts:49-56 computeDepth(info, depth), with room for `room` more
\* nested calls on the call stack; a call that finds no room throws
\* RangeError, which ends buildGraph.
computeDepth(t, ref, depth, room) ==
  IF t.overflow THEN t
  ELSE IF room = 0 THEN [t EXCEPT !.overflow = TRUE]
  ELSE LET t1 == IF Deeper(depth, t.heap[ref].depth)
                 THEN [t EXCEPT !.heap[ref].depth = depth]
                 ELSE t
       IN  computeDepthInputs(t1, ref, 1, room)

\* graph.ts:53-55 info.inputs.forEach(...)
computeDepthInputs(t, ref, i, room) ==
  IF t.overflow \/ i > Len(t.heap[ref].inputs) THEN t
  ELSE LET inputInfo == t.heap[ref].inputs[i].info
           t1 == IF inputInfo # Null
                 THEN computeDepth(t, inputInfo, t.heap[ref].depth + 1,
                                   room - 1)
                 ELSE t
       IN  computeDepthInputs(t1, ref, i + 1, room)

RECURSIVE depthSinks(_, _, _)
\* graph.ts:58-61
depthSinks(t, sinks, i) ==
  IF t.overflow \/ i > Len(sinks) THEN t
  ELSE LET info == t.visited[sinks[i]]
       IN  depthSinks(IF info # Null
                      THEN computeDepth(t, info, 0, StackLimit)
                      ELSE t,
                      sinks, i + 1)

\* graph.ts:63 new Map(Array.from(visited.values()).map(n => [n.id, n])):
\* the entries of the returned map, as id -> NodeInfo reference.
ResultMap(t) ==
  LET refs == { t.visited[n] : n \in DOMAIN t.visited } \ {Null}
  IN  [ id \in { t.heap[r].id : r \in refs } |->
          CHOOSE r \in refs : t.heap[r].id = id ]

\* graph.ts:12-64 buildGraph(sinkNodes): what the call hands back, or the
\* exception it ends with.
buildGraph(d, sinks) ==
  LET t == depthSinks(traverseSinks(d, NewBuild(d), sinks, 1), sinks, 1)
  IN  IF t.overflow
      THEN [ threw |-> "RangeError", heap |-> <<>>, map |-> <<>> ]
      ELSE [ threw |-> "", heap |-> t.heap, map |-> ResultMap(t) ]

\* layout: NODE_SPACING_X and PADDING.
NODE_SPACING_X == 400
PADDING == 50

\* layout groupByDepth(graph): the ids of the returned map by the depth of
\* their NodeInfo.
groupByDepth(out) ==
  [ depth \in { out.heap[out.map[id]].depth : id \in DOMAIN out.map } |->
      { id \in DOMAIN out.map : out.heap[out.map[id]].depth = depth } ]

\* layout computeLayout: Math.max(0, ...nodesByDepth.keys())
maxDepth(out) ==
  LET keys == DOMAIN groupByDepth(out) \cup {0}
  IN  CHOOSE x \in keys : \A y \in keys : y <= x

\* Variant: columns are counted from the sinks' side.
ColumnOfFromSinks(deepest, depth) == depth * NODE_SPACING_X + PADDING

\* layout computeLayout: x: (maxDepth - depth) * NODE_SPACING_X + PADDING
ColumnOf(deepest, depth) == (deepest - depth) * NODE_SPACING_X + PADDING

\* layout computeLayout(graph): the x of the position set for each id: the
\* loop runs over depth 0..maxDepth and sets a position for every node
\* grouped under that depth.  (The y of a position orders the nodes of one
\* column; it is not part of the model.)
computeLayout(out) ==
  LET nodesByDepth == groupByDepth(out)
      placed == UNION { nodesByDepth[depth] :
                          depth \in (0..maxDepth(out)) \cap DOMAIN nodesByDepth }
  IN  [ id \in placed |->
          ColumnOf(maxDepth(out), out.heap[out.map[id]].depth) ]

\* new SomeNode(context, inputs): node.ts:21-62.
Construct(ins) ==
  /\ Len(debugInputs) < MaxNodes
  /\ debugInputs' = Append(debugInputs, ins)
  /\ UNCHANGED << graph, regraph, flowVars, gpuVars, sceneVars >>

\* A caller replaces the producer of a declared input:
\* node.debugInputs.set(name, p).  The field is readonly (node.ts:17), the
\* Map behind it is not.  The graph is looked at once the caller is done.
SetInput(n, i, p) ==
  /\ graph = None
  /\ n \in 1..Len(debugInputs) /\ i \in 1..Len(debugInputs[n])
  /\ p \in 1..Len(debugInputs)
  /\ debugInputs[n][i].from # p
  /\ debugInputs' = [debugInputs EXCEPT ![n][i].from = p]
  /\ UNCHANGED << graph, regraph, flowVars, gpuVars, sceneVars >>

\* new RxNode(context, source): part_018:43-45 super(context, { source }).
ConstructRx(source) == Construct(<< [name |-> "source", from |-> source] >>)

\* Sink lists: any constructed nodes, repeated or not.
SinkLists(d) == UNION { [1..k -> 1..Len(d)] : k \in 0..MaxSinks }

\* The graph viewer calls buildGraph(sinkNodes).  A call keeps nothing for
\* the next one (visited and idCounter are locals), so a run looks at one.
BuildGraphCall(sinks) ==
  /\ graph = None
  /\ graph' = Some([sinks |-> sinks, out |-> buildGraph(debugInputs, sinks)])
  /\ UNCHANGED << debugInputs, regraph, flowVars, gpuVars, sceneVars >>

\* The viewer's effect runs again (node-graph-viewer/index.tsx:46-48) and
\* calls buildGraph with the same sinks.
BuildGraphAgain ==
  /\ graph # None /\ regraph = None
  /\ regraph' = Some(buildGraph(debugInputs, graph[1].sinks))
  /\ UNCHANGED << debugInputs, graph, flowVars, gpuVars, sceneVars >>

\* ------------------------------------------------- rendering and ownership
\* Variant: the node leaves the canvas as the render target.
RestoreScreen(prev) == "screen"

\* ValueNode.ts:112, part_014:233 setRenderTarget(prev)
Restore(prev) == prev

\* ValueNode.ts:109-112, part_014:230-233: the render pass of process() on
\* renderer r; render() either returns or throws, and a throw leaves
\* process() before the render target is set back.
RenderPass(r, n, outcome) ==
  LET prev == r.target
      r1 == [r EXCEPT !.target = OwnTarget(n)]
      r2 == [r1 EXCEPT !.frames[n] = @ + 1]
  IN  IF outcome = "throw" THEN r2
      ELSE [r2 EXCEPT !.target = Restore(prev)]

\* process() of PlainNormalNode or PlainDisplacementNode is invoked
\* (ValueNode.ts:102-115, part_014:183-236).
GpuProcess(n, outcome) ==
  /\ renderer.frames[n] < MaxRenders
  /\ renderer' = RenderPass(renderer, n, outcome)
  /\ lastProcess' = Some([ node |-> n, before |-> renderer.target,
                           returned |-> outcome # "throw" ])
  /\ UNCHANGED << subscriptions, retired, flowVars, graphVars, sceneVars >>

\* Other code using the renderer selects a render target
\* (ground-texture.ts:193,195).
SetRenderTarget(t) ==
  /\ t # renderer.target
  /\ renderer' = [renderer EXCEPT !.target = t]
  /\ UNCHANGED << lastProcess, subscriptions, retired, flowVars, graphVars,
                  sceneVars >>

\* subscriptions.ts:10-12: every kept subscription is unsubscribed.
UnsubscribeAll(subs) == [i \in 1..Len(subs) |-> [subs[i] EXCEPT !.closed = TRUE]]

\* Plain.ts:129-133 [Symbol.dispose]: the subscriptions are unsubscribed,
\* then materialNode.dispose() and geometryNode.dispose() run.
PlainDispose ==
  /\ stack = <<>>
  /\ ~retired
  /\ subscriptions' = UnsubscribeAll(subscriptions)
  /\ disposed' = RunDispose(RunDispose(St, "material"), "geometry").disposed
  /\ geo' = RunDispose(RunDispose(St, "material"), "geometry").geo
  /\ retired' = TRUE
  /\ UNCHANGED << renderer, lastProcess, graphVars, sceneVars >>
  /\ UNCHANGED << value, srcObs, nodeObs, connected, buffer, latest, inner,
                  comps, procCount, prevValues, lastOut, dropped, failures,
                  status, target, log, stack, accepted, since, attempt,
                  signal, writes >>

\* ------------------------------------------------ scene and editor calls
\* A call on the scene or the editor ends with scene r.sc and editor r.ed; it
\* leaves the data flow, the graph and the renderer alone.
SceneStep(r) ==
  /\ scene' = r.sc
  /\ editor' = r.ed
  /\ UNCHANGED << flowVars, graphVars, gpuVars >>

\* A caller's latest call on the scene: addObject or deleteObject.
Called(op, arg) == lastOp' = [lastOp EXCEPT !.op = op, !.arg = arg]

\* The ids a caller can name: those of decoded data and of objects made.
KnownIds ==
  EncodedIds \cup { scene.made[o].id : o \in 1..Len(scene.made) }

\* scene.addObject(encoded), scene.ts:81-85.
AddObject(encoded) ==
  /\ Len(scene.made) < MaxObjects
  /\ SceneStep([ sc |-> addObject(scene, encoded), ed |-> editor ])
  /\ Called("addObject", Len(scene.made) + 1)

\* scene.deleteObject(id), scene.ts:87-93.
DeleteObject(id) ==
  /\ SceneStep([ sc |-> deleteObject(scene, id), ed |-> editor ])
  /\ Called("deleteObject", id)

\* rake.width = value, part_005:46-50, on any rake stroke made so far.
SetRakeWidth(r) ==
  /\ r \in 1..Len(scene.made) /\ scene.made[r].type = "rakeStroke"
  /\ lastOp.widths < MaxChanges
  /\ scene' = SetWidth(scene, r)
  /\ lastOp' = [ op |-> "width", arg |-> r, widths |-> lastOp.widths + 1 ]
  /\ UNCHANGED << editor, flowVars, graphVars, gpuVars >>

\* A mousedown whose ray reaches pos (Editor.ts:55, 70-106).
MouseDown(pos) ==
  /\ editor.mode = "null" \/ pos = NoPos \/ Len(scene.made) < MaxObjects
  /\ SceneStep(handleMouseDown(scene, editor, pos))
  /\ UNCHANGED lastOp

\* A mousemove whose ray reaches pos (Editor.ts:56, 108-119).
MouseMove(pos) ==
  /\ SceneStep(handleMouseMove(scene, editor, pos))
  /\ UNCHANGED lastOp

\* A mouseup (Editor.ts:57, 121-123).
MouseUp ==
  /\ SceneStep([ sc |-> scene, ed |-> [editor EXCEPT !.dragging = None] ])
  /\ UNCHANGED lastOp

\* editor.setMode(mode), Editor.ts:150-152.
SetMode(mode) ==
  /\ mode # editor.mode
  /\ SceneStep([ sc |-> scene, ed |-> [editor EXCEPT !.mode = mode] ])
  /\ UNCHANGED lastOp

\* editor.deleteObject(id), Editor.ts:154-159.
EditorDeleteObject(id) ==
  /\ SceneStep(editorDeleteObject(scene, editor, id))
  /\ UNCHANGED lastOp

\* ---------------------------------------------------------- specifications
\* The choices in which every process() call returns (none throws).
Returning == { rk \in KindChoices : \A n \in Nodes : rk[n] # "throw" }

\* The parameter side of the graph: the two ValueNodes are assigned (also
\* from inside observer callbacks), observers watch plainSize and the
\* textureRepeat node computed from both.
ValueTargets == {"sizeRaw", "textureRepeat"}

NextValue ==
  \/ \E v \in Candidates("sizeRaw") : Write("sizeRaw", v)
  \/ \E v \in Candidates("tileSize") : Write("tileSize", v)
  \/ \E rk \in Returning : DeliverInput(rk)
  \/ DeliverApp
  \/ \E v \in Candidates("sizeRaw") : DeliverAppWrite(v)
  \/ \E o2 \in Apps : DeliverAppUnsubscribe(o2)
  \/ \E o \in Apps : \E t \in ValueTargets : \E rk \in Returning :
       Subscribe(o, t, rk)
  \/ \E o \in Apps : Unsubscribe(o)

SpecValue == Init /\ [][NextValue]_vars

\* plainSize and the plainSizeVector MapNode computed from it
\* (Plain.ts:47-48): plainSize is assigned (also from inside observer
\* callbacks), observers watch the source and the MapNode.
MapTargets == {"sizeRaw", "size"}

NextMap ==
  \/ \E v \in Candidates("sizeRaw") : Write("sizeRaw", v)
  \/ \E rk \in Returning : DeliverInput(rk)
  \/ DeliverApp
  \/ \E v \in Candidates("sizeRaw") : DeliverAppWrite(v)
  \/ \E o \in Apps : \E t \in MapTargets : \E rk \in Returning :
       Subscribe(o, t, rk)
  \/ \E o \in Apps : Unsubscribe(o)

SpecMap == Init /\ [][NextMap]_vars

\* The texture side of the graph: the texture name changes, the texture
\* set is loaded asynchronously (part_008:18 process is async, its result
\* is always a promise), observers watch the texture set and the tiled
\* texture set computed from it.
NodeTargets == {"textureSet", "mappedTexture"}

PromiseKinds == { rk \in Returning : \A n \in Nodes : rk[n] # "stream" }

NextNode ==
  \/ \E v \in Candidates("textureName") : Write("textureName", v)
  \/ \E rk \in PromiseKinds : DeliverInput(rk)
  \/ \E o \in Apps : \E t \in NodeTargets : \E rk \in PromiseKinds :
       Subscribe(o, t, rk)
  \/ \E o \in Apps : Unsubscribe(o)
  \/ \E n \in Nodes : \E c \in comps[n] : \E rk \in PromiseKinds :
       Resolve(n, c, rk)
  \/ \E n \in Nodes : \E c \in comps[n] : Reject(n, c)

SpecNode == Init /\ [][NextNode]_vars

\* One node whose process may answer a snapshot with a promise or with a
\* stream (node.ts:53-54), watched directly while its input changes.
StreamTargets == {"textureSet"}

NextStream ==
  \/ \E v \in Candidates("textureName") : Write("textureName", v)
  \/ \E rk \in Returning : DeliverInput(rk)
  \/ \E o \in Apps : \E t \in StreamTargets : \E rk \in Returning :
       Subscribe(o, t, rk)
  \/ \E o \in Apps : Unsubscribe(o)
  \/ \E n \in Nodes : \E c \in comps[n] : \E rk \in Returning :
       Resolve(n, c, rk)
  \/ \E n \in Nodes : \E c \in comps[n] : Reject(n, c)
  \/ \E n \in Nodes : \E c \in comps[n] : \E rk \in Returning :
       StreamEmit(n, c, rk)
  \/ \E n \in Nodes : \E c \in comps[n] : StreamError(n, c)
  \/ \E n \in Nodes : \E c \in comps[n] : StreamComplete(n, c)

SpecStream == Init /\ [][NextStream]_vars

\* Failures: the texture set is loaded asynchronously and the load may be
\* rejected (part_008:23-25); the map function of the tiled texture set may
\* throw.  Observers watch both nodes and come and go.
FailKinds == { rk \in KindChoices : \A n \in Nodes : rk[n] # "stream" }

NextFail ==
  \/ \E v \in Candidates("textureName") : Write("textureName", v)
  \/ \E rk \in FailKinds : DeliverInput(rk)
  \/ \E o \in Apps : \E t \in NodeTargets : \E rk \in FailKinds :
       Subscribe(o, t, rk)
  \/ \E o \in Apps : Unsubscribe(o)
  \/ \E n \in Nodes : \E c \in comps[n] : \E rk \in FailKinds :
       Resolve(n, c, rk)
  \/ \E n \in Nodes : \E c \in comps[n] : Reject(n, c)

SpecFail == Init /\ [][NextFail]_vars

\* The PipeNode of Plain.ts:88 beside the MapNode over the same source with
\* the same transform, observed over the same period; the source answers
\* with promises or streams, which may fail.
NextPipe ==
  \/ \E v \in Candidates("textureName") : Write("textureName", v)
  \/ \E rk \in Returning : DeliverInput(rk)
  \/ \E rk \in Returning : SubscribeBoth(rk)
  \/ UnsubscribeBoth
  \/ \E n \in Nodes : \E c \in comps[n] : \E rk \in Returning :
       Resolve(n, c, rk)
  \/ \E n \in Nodes : \E c \in comps[n] : Reject(n, c)
  \/ \E n \in Nodes : \E c \in comps[n] : \E rk \in Returning :
       StreamEmit(n, c, rk)
  \/ \E n \in Nodes : \E c \in comps[n] : StreamError(n, c)
  \/ \E n \in Nodes : \E c \in comps[n] : StreamComplete(n, c)

SpecPipe == Init /\ [][NextPipe]_vars

\* Graph assembly and introspection: nodes are constructed from streams
\* that exist, and the viewer builds the graph of any sinks.
NextGraph ==
  \/ \E ins \in InputChoices(Passable(debugInputs)) : Construct(ins)
  \/ \E sinks \in SinkLists(debugInputs) : BuildGraphCall(sinks)

SpecGraph == Init /\ [][NextGraph]_vars

\* Introspection of a graph whose declared inputs a caller has changed
\* after construction.
NextCycle ==
  \/ \E ins \in InputChoices(Passable(debugInputs)) : Construct(ins)
  \/ \E n \in 1..MaxNodes : \E i \in 1..Len(InputNames) : \E p \in 1..MaxNodes :
       SetInput(n, i, p)
  \/ \E sinks \in SinkLists(debugInputs) : BuildGraphCall(sinks)

SpecCycle == Init /\ [][NextCycle]_vars

\* Observers of the texture nodes come and go while the owner may dispose
\* the nodes.
NextDispose ==
  \/ \E v \in Candidates("textureName") : Write("textureName", v)
  \/ \E rk \in PromiseKinds : DeliverInput(rk)
  \/ \E o \in Apps : \E t \in NodeTargets : \E rk \in PromiseKinds :
       Subscribe(o, t, rk)
  \/ \E o \in Apps : Unsubscribe(o)
  \/ \E n \in Nodes : \E c \in comps[n] : \E rk \in PromiseKinds :
       Resolve(n, c, rk)
  \/ \E n \in NodeTargets : Dispose(n)

SpecDispose == Init /\ [][NextDispose]_vars

\* The two ValueNodes by themselves: constructed with any initial value,
\* assigned through the setter or handed a value through next(), watched by
\* observers that come and go.
NextSchema ==
  \/ \E src \in ValueNodes : \E v \in Candidates(src) : Write(src, v)
  \/ \E src \in ValueNodes : \E v \in Candidates(src) : SubjectNext(src, v)
  \/ DeliverApp
  \/ \E o \in Apps : \E t \in ValueNodes : \E rk \in Returning :
       Subscribe(o, t, rk)
  \/ \E o \in Apps : Unsubscribe(o)

SpecSchema == InitAny /\ [][NextSchema]_vars

\* The plain as the owner of its rendering nodes: the displacement and the
\* normal node render through the shared renderer (a pass may fail), other
\* code selects render targets, a caller disposes the two nodes the plain
\* exposes (Plain.ts:32-33), and the plain is disposed.
NextGpu ==
  \/ \E n \in GpuNodes : \E outcome \in {"ok", "throw"} : GpuProcess(n, outcome)
  \/ \E t \in RenderTargets : SetRenderTarget(t)
  \/ \E n \in {"material", "geometry"} : Dispose(n)
  \/ PlainDispose

SpecGpu == Init /\ [][NextGpu]_vars

\* An RxNode over the texture-name subject: RxNodes are constructed (over a
\* plain stream or over a node), the graph viewer looks at one of them,
\* once and again, observers of the RxNode come and go while the subject
\* emits.
NextLift ==
  \/ \E p \in Passable(debugInputs) : ConstructRx(p)
  \/ \E n \in 1..Len(debugInputs) : BuildGraphCall(<< n >>)
  \/ BuildGraphAgain
  \/ \E v \in Candidates("textureName") : Write("textureName", v)
  \/ \E rk \in Returning : DeliverInput(rk)
  \/ \E o \in Apps : \E rk \in Returning : Subscribe(o, "lifted", rk)
  \/ \E o \in Apps : Unsubscribe(o)

SpecLift == Init /\ [][NextLift]_vars

\* The scene: objects are added (by the constructor from decoded data, or
\* later) and deleted, rake strokes are changed.  Where an object lies and
\* which kind of non-rake it is makes no difference here.
RakeSceneObjects ==
  { e \in EncodedObjects : e.type # "moss" /\ e.position = 1 }

NextRakes ==
  \/ \E e \in RakeSceneObjects : AddObject(e)
  \/ \E id \in KnownIds : DeleteObject(id)
  \/ \E r \in 1..Len(scene.made) : SetRakeWidth(r)

SpecRakes == Init /\ [][NextRakes]_vars

\* The editor on a scene: mouse events, setMode and deleteObject.
NextEditor ==
  \/ \E pos \in Positions \cup {NoPos} : MouseDown(pos)
  \/ \E pos \in Positions \cup {NoPos} : MouseMove(pos)
  \/ MouseUp
  \/ \E mode \in {"null", "addRock", "addMoss"} : SetMode(mode)
  \/ \E id \in KnownIds : EditorDeleteObject(id)

SpecEditor == InitScene /\ [][NextEditor]_vars

\* The geometry node: plainSize is assigned (also from inside observer
\* callbacks), observers watch it and the geometry node, and the node is
\* disposed (Plain.ts:118-120, 132).
GeometryTargets == {"sizeRaw", "geometry"}

NextGeometry ==
  \/ \E v \in Candidates("sizeRaw") : Write("sizeRaw", v)
  \/ \E rk \in Returning : DeliverInput(rk)
  \/ DeliverApp
  \/ \E v \in Candidates("sizeRaw") : DeliverAppWrite(v)
  \/ \E o \in Apps : \E t \in GeometryTargets : \E rk \in Returning :
       Subscribe(o, t, rk)
  \/ \E o \in Apps : Unsubscribe(o)
  \/ Dispose("geometry")

SpecGeometry == Init /\ [][NextGeometry]_vars

\* A node without inputs beside the plainSize branch: plainSize is
\* assigned, observers watch it, its MapNode and the node without inputs.
NextEmpty ==
  \/ \E v \in Candidates("sizeRaw") : Write("sizeRaw", v)
  \/ \E rk \in Returning : DeliverInput(rk)
  \/ DeliverApp
  \/ \E o \in Apps : \E t \in MapTargets \cup {"noInputs"} :
       \E rk \in Returning : Subscribe(o, t, rk)
  \/ \E o \in Apps : Unsubscribe(o)
  \/ Dispose("noInputs")

SpecEmpty == Init /\ [][NextEmpty]_vars

Next ==
  \/ NextEmpty
  \/ NextGeometry
  \/ NextRakes
  \/ NextEditor
  \/ NextLift \/ NextSchema \/ NextGpu
  \/ NextValue \/ NextNode \/ NextStream \/ NextFail
  \/ NextGraph \/ NextCycle \/ NextDispose \/ NextMap \/ NextPipe

Spec == Init /\ [][Next]_vars

\* ------------------------------------------------------------- properties
\* Entries observer o received in the step.
NewEntries(o) == (Len(log[o]) + 1)..Len(log'[o])

NextEntry(v) == [t |-> "next", v |-> v]

IsNext(o, i) == log[o][i].t = "next"

\* The value carried by entry i of o's log.
Val(o, i) == log[o][i].v[1]

\* C1: a result computed from a snapshot that has been superseded is never
\* delivered: whatever a node hands to its subscribers or keeps for replay
\* was computed by the latest process() call, in whatever order the
\* promises of older and newer snapshots settle.
StaleResultNeverDelivered ==
  [][/\ \A o \in Apps :
          (status[o] = "sub" /\ target[o] \in Nodes)
          => \A i \in NewEntries(o) :
               log'[o][i].t = "next"
               => log'[o][i].v[1].gen = procCount'[target[o]]
     /\ \A n \in Nodes :
          (buffer'[n] # buffer[n] /\ buffer'[n] # None)
          => buffer'[n][1].gen = procCount'[n]]_vars

\* The promise of the first snapshot settled after the second snapshot had
\* arrived, its result was dropped, and the observer saw the second result
\* only.
StaleResultWitness ==
  \E o \in Apps :
    /\ target[o] = "textureSet" /\ status[o] = "sub"
    /\ dropped["textureSet"] = {[gen |-> 1, kind |-> "promise"]}
    /\ Len(log[o]) = 1 /\ IsNext(o, 1)
    /\ Val(o, 1).gen = 2 /\ Val(o, 1).k = 0

\* C2: process() is called with a value for every declared input name, and
\* a node one of whose producers has never emitted has not been processed.
NoPartialSnapshot ==
  \A n \in Nodes :
    /\ procCount[n] > 0
       => prevValues[n] # None /\ DOMAIN prevValues[n][1] = Keys(n)
    /\ \A i \in 1..Len(Inputs(n)) :
         (Inputs(n)[i].from \in Nodes /\ lastOut[Inputs(n)[i].from] = None)
         => procCount[n] = 0

\* The tiled texture set was computed once both the texture set (late, a
\* promise) and the repeat had arrived.
NoPartialSnapshotWitness ==
  /\ procCount["mappedTexture"] = 1
  /\ procCount["textureRepeat"] = 1
  /\ dropped["textureSet"] = {}
  /\ lastOut["mappedTexture"] # None

\* The tiled texture set waits: the repeat has arrived, the texture set has
\* not.
WaitingForTextureSet ==
  /\ connected["mappedTexture"]
  /\ latest["mappedTexture"][2] # None
  /\ latest["mappedTexture"][1] = None

\* Occurrences of observer entry ob in an observer list.
Occurrences(obs, ob) == Cardinality({ i \in 1..Len(obs) : obs[i] = ob })

\* C3: however many observers a node has, it holds one subscription per
\* input, an input emission that completes a snapshot causes exactly one
\* process() call, at most one call happens per step, and an emitted output
\* reaches every current observer of the node.
Multicast ==
  /\ [](\A n \in Nodes : \A i \in 1..Len(Inputs(n)) :
          /\ \A p \in Sources : Occurrences(srcObs[p], NodeObs(n, i)) <= 1
          /\ \A m \in Nodes : Occurrences(nodeObs[m], NodeObs(n, i)) <= 1)
  /\ [][/\ \A n \in Nodes : procCount'[n] \in {procCount[n], procCount[n] + 1}
        /\ (stack # <<>> /\ Head(Top.todo).app = ""
            /\ Delivered(St, Top.src, Head(Top.todo)))
           => procCount'[Head(Top.todo).node] =
                procCount[Head(Top.todo).node] +
                  (IF Ready(St', Head(Top.todo).node) THEN 1 ELSE 0)
        /\ \A n \in Nodes :
             (buffer'[n] # buffer[n] /\ buffer'[n] # None)
             => \A o \in Apps :
                  (status[o] = "sub" /\ target[o] = n)
                  => log'[o] = Append(log[o], NextEntry(buffer'[n]))]_vars

\* Two observers of the texture set: two snapshots were processed and both
\* observers hold the same two outputs.
MulticastWitness ==
  /\ status["o1"] = "sub" /\ status["o2"] = "sub"
  /\ target["o1"] = "textureSet" /\ target["o2"] = "textureSet"
  /\ procCount["textureSet"] = 2
  /\ Len(log["o1"]) = 2 /\ log["o1"] = log["o2"]
  /\ Val("o1", 2).gen = 2

\* C4: once a node has produced an output, a later subscribe hands the most
\* recent output to the new observer at once and calls process() for no
\* node.
ReplayLatest ==
  [][\A o \in Apps : \A n \in Nodes :
       (status[o] = "idle" /\ status'[o] # "idle" /\ target'[o] = n
        /\ lastOut[n] # None)
       => /\ log'[o] = << NextEntry(lastOut[n]) >>
          /\ procCount' = procCount]_vars

\* The computations of node n that switchMap listens to.
Listening(n) == { c \in comps[n] : IsActive(St, n, c.gen) }

\* Stream c of node n emits in this step.
Emits(n, c) ==
  /\ c \in comps[n] /\ c.kind = "stream"
  /\ c \notin comps'[n]
  /\ [c EXCEPT !.k = @ + 1] \in comps'[n]

\* C5: a node listens to at most one computation; an emission of the stream
\* returned for the latest snapshot becomes the node's output, an emission
\* of a stream returned for an earlier snapshot reaches no observer and no
\* replay buffer.
SwitchToLatest ==
  /\ [](\A n \in Nodes : Cardinality(Listening(n)) <= 1)
  /\ [][\A n \in Nodes : \A c \in comps[n] :
          Emits(n, c)
          => IF c.gen = procCount[n]
             THEN buffer'[n] = Some(Output(n, c.gen, c.k + 1, c.snap))
             ELSE log' = log /\ buffer' = buffer]_vars

\* The stream of the first snapshot emitted after the second snapshot had
\* arrived; the observer has the outputs of the first stream from before
\* the switch and of the second stream from after it.
SwitchToLatestWitness ==
  \E o \in Apps :
    /\ target[o] = "textureSet" /\ status[o] = "sub"
    /\ [gen |-> 1, kind |-> "stream"] \in dropped["textureSet"]
    /\ Len(log[o]) = 1 /\ IsNext(o, 1)
    /\ Val(o, 1).gen = 2 /\ Val(o, 1).k = 1

\* C6: what an observer of a node receives is ordered by the snapshots: an
\* output never follows an output of a later snapshot (nor, within one
\* stream, a later emission).
OutputsInSnapshotOrder ==
  \A o \in Apps :
    target[o] \in Nodes
    => \A i, j \in 1..Len(log[o]) :
         (i < j /\ IsNext(o, i) /\ IsNext(o, j))
         => \/ Val(o, i).gen < Val(o, j).gen
            \/ Val(o, i).gen = Val(o, j).gen /\ Val(o, i).k < Val(o, j).k

\* An observer of the tiled texture set received the output computed from
\* the first texture set, then the output computed from the second.
OutputsInSnapshotOrderWitness ==
  \E o \in Apps :
    /\ target[o] = "mappedTexture"
    /\ Len(log[o]) = 2 /\ IsNext(o, 1) /\ IsNext(o, 2)
    /\ Val(o, 1).gen = 1 /\ Val(o, 2).gen = 2
    /\ Val(o, 1).in.textureSet.gen = 1 /\ Val(o, 2).in.textureSet.gen = 2

\* The step is a setter call (top level or from inside a callback).
SetterCalled == writes' = writes + 1

\* Source and argument of the setter call made in the step.
Arg == attempt'[1].v[1]

ArgSrc == attempt'[1].src

\* The last setter call assigned v to source src.
Attempted(src, v) ==
  /\ attempt # None
  /\ attempt[1].src = src
  /\ attempt[1].v[1] = v

\* The setter call of the step had an argument its schema rejects.
RejectedCall ==
  SetterCalled /\ ArgSrc \in ValueNodes /\ ~SchemaAccepts(ArgSrc, Arg)

\* The setter call of the step had an argument its schema accepts.
AcceptedCall ==
  SetterCalled /\ ArgSrc \in ValueNodes /\ SchemaAccepts(ArgSrc, Arg)

\* C7: assigning a value the schema rejects signals an error to the caller
\* and leaves the value of every source as it was.
FailedWriteKeepsValue ==
  [][RejectedCall => value' = value /\ signal' = "ZodError"]_vars

\* A rejected assignment to plainSize after an accepted one: the value is
\* still the one stored by the accepted assignment.
FailedWriteWitness ==
  /\ signal = "ZodError"
  /\ Attempted("sizeRaw", [x |-> 4])
  /\ accepted["sizeRaw"] = << [x |-> 2, y |-> 1] >>
  /\ value["sizeRaw"] = [x |-> 2, y |-> 1]

\* C8: a rejected assignment starts no notification: no next() call is
\* opened, so no observer of the ValueNode is called, and no node calls
\* process() or emits.  (Inside a callback the step also records the value
\* the callback was called with.)
FailedWriteNoEmission ==
  [][RejectedCall =>
       /\ procCount' = procCount /\ buffer' = buffer /\ lastOut' = lastOut
       /\ prevValues' = prevValues /\ accepted' = accepted
       /\ IF stack = <<>>
          THEN stack' = <<>> /\ log' = log
          ELSE /\ stack' = Unwind(Advanced)
               /\ log' = [log EXCEPT ![Head(Top.todo).app] =
                                       Append(@, NextEntry(Some(Top.val)))]]_vars

\* A rejected assignment to plainSize while an observer watches plainSize
\* and the textureRepeat node, which depends on it, is connected and has an
\* observer.
FailedWriteNoEmissionWitness ==
  /\ signal = "ZodError" /\ stack = <<>>
  /\ Attempted("sizeRaw", [x |-> 4])
  /\ status["o1"] = "sub" /\ target["o1"] = "sizeRaw"
  /\ status["o2"] = "sub" /\ target["o2"] = "textureRepeat"
  /\ procCount["textureRepeat"] >= 2

\* What an observer of a source has to have received when no next() call
\* is in progress: the value at subscription, then the accepted writes
\* made since, in write order.
Expected(o) ==
  << IF since[o] = 0 THEN Initial(target[o])
     ELSE accepted[target[o]][since[o]] >>
  \o SubSeq(accepted[target[o]], since[o] + 1, Len(accepted[target[o]]))

Received(o) == [i \in 1..Len(log[o]) |-> Val(o, i)]

\* C9: every observer of a ValueNode receives the current value on
\* subscribing and then every accepted write once, in write order, also
\* when writes are made from inside an observer callback; after
\* unsubscribing it receives nothing.
DeliveryInWriteOrder ==
  /\ [](\A o \in Apps :
          (stack = <<>> /\ status[o] = "sub" /\ target[o] \in Sources)
          => Received(o) = Expected(o))
  /\ [][\A o \in Apps : status[o] = "closed" => log'[o] = log[o]]_vars

\* The same without the order: every value as often as it was written.
Occ(seq, v) == Cardinality({ i \in 1..Len(seq) : seq[i] = v })

\* C10 as stated: after an accepted assignment of v a read returns v.
WriteReadRoundTrip ==
  [][AcceptedCall => value'[ArgSrc] = Arg]_vars

\* C10 amended: an accepted assignment of v stores schema.parse(v) (v
\* without the keys the schema does not declare), which a read made right
\* after the store returns; the notification it starts carries that parsed
\* value to the observers subscribed at the time of the call, and when no
\* next() call is in progress every subscribed observer has received every
\* stored value once per write.
WriteStoresParsedValue ==
  /\ [][AcceptedCall =>
          /\ value'[ArgSrc] = SchemaParse(ArgSrc, Arg)
          /\ accepted'[ArgSrc] = Append(accepted[ArgSrc], value'[ArgSrc])
          /\ \/ stack' # <<>> /\ stack'[Len(stack')].val = value'[ArgSrc]
                /\ stack'[Len(stack')].todo = srcObs'[ArgSrc]
             \/ srcObs'[ArgSrc] = <<>> ]_vars
  /\ [](\A o \in Apps :
          (stack = <<>> /\ status[o] = "sub" /\ target[o] \in Sources)
          => /\ Len(log[o]) = Len(Expected(o))
             /\ \A i \in 1..Len(log[o]) :
                  IsNext(o, i)
                  /\ Occ(Received(o), Val(o, i)) = Occ(Expected(o), Val(o, i)))

\* An object with an unknown key was assigned to plainSize; the value read
\* back lacks the key, and the two observers of plainSize were each
\* notified of it once.
WriteStoresParsedValueWitness ==
  /\ stack = <<>>
  /\ Attempted("sizeRaw", [x |-> 3, y |-> 1, z |-> 0])
  /\ value["sizeRaw"] = [x |-> 3, y |-> 1]
  /\ \A o \in Apps :
       /\ status[o] = "sub" /\ target[o] = "sizeRaw"
       /\ Received(o) = << [x |-> 1, y |-> 1], [x |-> 3, y |-> 1] >>

ErrorEntry == [t |-> "error", v |-> None]

\* Observer o subscribes to node n in this step.
Joins(o, n) == status[o] = "idle" /\ status'[o] # "idle" /\ target'[o] = n

\* The output of node n fails in this step.
Fails(n) == failures'[n] > failures[n]

\* The output of node n has failed before.
Errored(n) == failures[n] > 0

\* C11: when a node's process throws or its promise fails, every current
\* subscriber gets the error; from then on every new subscriber gets the
\* error too, the node delivers no value and process() is not called
\* again.
FailFast ==
  [][\A n \in Nodes :
       /\ Fails(n)
          => \A o \in Apps :
               (status[o] = "sub" /\ target[o] = n)
               => log'[o] = Append(log[o], ErrorEntry) /\ status'[o] = "closed"
       /\ Errored(n)
          => /\ procCount'[n] = procCount[n]
             /\ buffer'[n] = None
             /\ \A o \in Apps : Joins(o, n) => log'[o] = << ErrorEntry >>]_vars

RECURSIVE Upstream(_)
\* The nodes n depends on, directly or through other nodes.
Upstream(n) ==
  LET direct == { Inputs(n)[i].from : i \in 1..Len(Inputs(n)) } \cap Nodes
  IN  direct \cup UNION { Upstream(p) : p \in direct }

\* C12: when a node's output fails, every node depending on it fails too
\* and hands the error to its subscribers; afterwards none of the
\* dependants calls process() or emits; the other nodes keep their
\* connection and their latest output.
ErrorPoisonsDownstream ==
  [][\A n, m \in Nodes :
       /\ (n \in Upstream(m) /\ Fails(n) /\ connected[m])
          => /\ Fails(m)
             /\ \A o \in Apps :
                  (status[o] = "sub" /\ target[o] = m)
                  => log'[o] = Append(log[o], ErrorEntry)
       /\ (n \in Upstream(m) /\ Errored(n))
          => /\ procCount'[m] = procCount[m]
             /\ buffer'[m] \in {buffer[m], None}
       /\ (Fails(n) /\ connected[m]
           /\ \A f \in Nodes : Fails(f) => f \notin Upstream(m) \cup {m})
          => /\ connected'[m]
             /\ buffer[m] # None => buffer'[m] # None]_vars

\* The latest buildGraph call: its sinks, what it returned, the NodeInfo
\* objects it created.
Sinks == graph[1].sinks
Returned == graph[1].out.map
Infos == graph[1].out.heap
Built == graph # None /\ graph[1].out.threw = ""

\* The NodeInfo the returned map holds for node n.
InfoOf(n) == CHOOSE r \in { Returned[id] : id \in DOMAIN Returned } :
               Infos[r].node = n

\* The nodes among the declared inputs of node n.
Producers(n) ==
  { debugInputs[n][i].from : i \in 1..Len(debugInputs[n]) } \ {Subject}

RECURSIVE Closure(_)
Closure(S) ==
  LET S2 == S \cup UNION { Producers(n) : n \in S }
  IN  IF S2 = S THEN S ELSE Closure(S2)

\* The nodes reachable from the sinks through declared inputs.
Reachable == Closure({ Sinks[i] : i \in 1..Len(Sinks) })

\* C13: the map buildGraph returns has one entry per node reachable from
\* the sinks and no other entry, every entry is stored under its own id,
\* ids are pairwise distinct, and no NodeInfo was created beside those: a
\* node that is shared, repeated or reachable from another sink appears
\* once.
EachNodeOnce ==
  Built =>
    /\ { Infos[Returned[id]].node : id \in DOMAIN Returned } = Reachable
    /\ Cardinality(DOMAIN Returned) = Cardinality(Reachable)
    /\ \A id \in DOMAIN Returned : Infos[Returned[id]].id = id
    /\ \A r1, r2 \in 1..Len(Infos) : Infos[r1].id = Infos[r2].id => r1 = r2
    /\ Len(Infos) = Cardinality(Reachable)

\* Node 3 reads node 2 and node 1, node 2 reads node 1; the sinks are 3 and
\* 2 (a sink reachable from another sink, a node on two paths).
EachNodeOnceWitness ==
  /\ Built
  /\ Sinks = << 3, 2 >>
  /\ Producers(3) = {1, 2} /\ Producers(2) = {1}
  /\ Cardinality(DOMAIN Returned) = 3

Max(S) == CHOOSE x \in S : \A y \in S : y <= x

RECURSIVE LongestPath(_)
\* The number of edges of the longest input path from a sink to node n.
LongestPath(n) ==
  Max((IF \E i \in 1..Len(Sinks) : Sinks[i] = n THEN {0} ELSE {}) \cup
      { LongestPath(p) + 1 : p \in { q \in Reachable : n \in Producers(q) } })

\* C14: the depth recorded for a node is the number of edges of the
\* longest input path from any sink to it, in whatever order the sinks are
\* listed and the inputs are declared.
DepthIsLongestPath ==
  Built => \A n \in Reachable : Infos[InfoOf(n)].depth = LongestPath(n)

\* Node 1 is read by sink 3 directly and through node 2, and sink 3 is
\* listed first or last: node 1 is at depth 2; sink 2 is at depth 1.
DepthIsLongestPathWitness ==
  /\ Built
  /\ Len(Sinks) = 2 /\ { Sinks[1], Sinks[2] } = {2, 3}
  /\ Producers(3) = {1, 2} /\ Producers(2) = {1}
  /\ debugInputs[3][1].from = 1
  /\ Infos[InfoOf(1)].depth = 2 /\ Infos[InfoOf(2)].depth = 1

\* C15: the inputs map of a NodeInfo has the declared input names as its
\* keys; a name whose producer is a ReactiveNode holds the NodeInfo the
\* returned map has for that producer, any other name holds null.
InputsResolved ==
  Built =>
    \A id \in DOMAIN Returned :
      LET n == Infos[Returned[id]].node
          inputs == Infos[Returned[id]].inputs
      IN  /\ Len(inputs) = Len(debugInputs[n])
          /\ \A i \in 1..Len(inputs) :
               /\ inputs[i].name = debugInputs[n][i].name
               /\ IF debugInputs[n][i].from = Subject
                  THEN inputs[i].info = Null
                  ELSE /\ inputs[i].info # Null
                       /\ Infos[inputs[i].info].node = debugInputs[n][i].from
                       /\ \E id2 \in DOMAIN Returned :
                            Returned[id2] = inputs[i].info

\* A sink with one input from a node and one from a plain subject.
InputsResolvedWitness ==
  /\ Built
  /\ \E n \in Reachable :
       /\ Len(debugInputs[n]) = 2
       /\ debugInputs[n][1].from = Subject
       /\ debugInputs[n][2].from \in Reachable
       /\ Infos[InfoOf(n)].inputs[1].info = Null
       /\ Infos[InfoOf(n)].inputs[2].info # Null

\* Some node reachable from the sinks is among its own (transitive)
\* producers.
CycleFromSinks ==
  \E n \in Reachable : n \in Closure(Producers(n))

\* C16: when the declared inputs reachable from the sinks contain a cycle,
\* buildGraph ends by reporting the cycle: it neither returns a map nor
\* recurses until the call stack is exhausted.
CycleReported ==
  (graph # None /\ CycleFromSinks)
  => graph[1].out.threw \notin {"", "RangeError"}

\* C17: whatever nodes have been constructed, no node is among its own
\* (transitive) producers, and no step changes the declared inputs of a
\* node that exists.
AcyclicByConstruction ==
  /\ [](\A n \in 1..Len(debugInputs) : n \notin Closure(Producers(n)))
  /\ [][\A n \in 1..Len(debugInputs) :
          Len(debugInputs') >= n /\ debugInputs'[n] = debugInputs[n]]_vars

\* A chain of three nodes has been constructed and introspected.
AcyclicByConstructionWitness ==
  /\ Len(debugInputs) = 3
  /\ Producers(3) = {2} /\ Producers(2) = {1}
  /\ Built /\ Sinks = << 3 >>

\* C18: a step in which an observer subscribes or unsubscribes runs no
\* dispose; dispose runs only in a step that is the explicit call, which
\* touches neither observers nor connections.
DisposeOnlyExplicit ==
  [][/\ status' # status => disposed' = disposed
     /\ disposed' # disposed
        => /\ status' = status /\ nodeObs' = nodeObs /\ srcObs' = srcObs
           /\ connected' = connected /\ buffer' = buffer
           /\ procCount' = procCount /\ log' = log]_vars

\* Both observers of the texture set have left (no subscriber remains); the
\* node is still connected and has not been disposed.
DisposeOnlyExplicitWitness ==
  /\ status["o1"] = "closed" /\ status["o2"] = "closed"
  /\ target["o1"] = "textureSet" /\ target["o2"] = "textureSet"
  /\ log["o1"] # <<>> /\ IsNext("o1", Len(log["o1"]))
  /\ connected["textureSet"]
  /\ disposed = {}

\* What an observer of a single-input MapNode has to have received when no
\* next() call is in progress: one output for the value at subscription,
\* then one per accepted write made since, in write order.
ExpectedInputs(o) ==
  << IF since[o] = 0 THEN Initial(Feed(target[o]))
     ELSE accepted[Feed(target[o])][since[o]] >>
  \o SubSeq(accepted[Feed(target[o])], since[o] + 1,
            Len(accepted[Feed(target[o])]))

\* The input each output an observer received was computed from.
ReceivedInputs(o) ==
  [i \in 1..Len(log[o]) |-> Val(o, i).in[Inputs(target[o])[1].name]]

\* C19: an observer of the plainSizeVector MapNode receives the output for
\* the current plainSize on subscribing, then one output per accepted
\* write, in write order; a rejected write gives no output.
MapFollowsWrites ==
  /\ [](\A o \in Apps :
          (stack = <<>> /\ status[o] = "sub" /\ target[o] = "size")
          => ReceivedInputs(o) = ExpectedInputs(o))
  /\ [][\A o \in Apps :
          (RejectedCall /\ status[o] = "sub" /\ target[o] = "size")
          => log'[o] = log[o]]_vars

\* What an observer was handed, node identity aside: the computed values
\* and the error, in order.
Handed(o) ==
  [i \in 1..Len(log[o]) |->
     IF IsNext(o, i) THEN [t |-> "next", out |-> Val(o, i).out]
     ELSE [t |-> "error", out |-> None]]

\* C20: the PipeNode and the MapNode written for the same source and
\* transform hand the same sequence of outputs to their observers and have
\* called their function the same number of times, however the source
\* emits.
PipeIsMap ==
  /\ Handed("o1") = Handed("o2")
  /\ procCount["baseDisplacement"] = procCount["baseDisplacementMap"]

\* Both nodes have processed two texture sets and handed two outputs over.
PipeIsMapWitness ==
  /\ target["o1"] = "baseDisplacement"
  /\ target["o2"] = "baseDisplacementMap"
  /\ procCount["baseDisplacement"] = 2
  /\ Len(log["o1"]) = 2 /\ IsNext("o1", 2)
  /\ Val("o1", 2).out = Transform(Val("o1", 2).in.source)
\* The values observer o was handed, in order.
ReceivedOuts(o) == [i \in 1..Len(log[o]) |-> Val(o, i).out]

\* The NodeInfo objects of the RxNodes that wrap a stream which is not a
\* node.
LiftedInfos ==
  { r \in 1..Len(Infos) :
      debugInputs[Infos[r].node] = << [name |-> "source", from |-> Subject] >> }

SourceEmitsTo(n, i) ==
  /\ stack # <<>>
  /\ Head(Top.todo) = NodeObs(n, i)
  /\ Delivered(St, Top.src, Head(Top.todo))

\* Emissions node n receives from its inputs in this step, when it is
\* connected before and after: one from the subject at the top of the
\* stack, and one per process() call of a node among its inputs.
RECURSIVE EmissionsFrom(_, _)
EmissionsFrom(n, i) ==
  IF i > Len(Inputs(n)) THEN 0
  ELSE (IF Inputs(n)[i].from \in Nodes
        THEN procCount'[Inputs(n)[i].from] - procCount[Inputs(n)[i].from]
        ELSE IF SourceEmitsTo(n, i) THEN 1 ELSE 0)
       + EmissionsFrom(n, i + 1)

\* The value input i of node n emitted most recently, as of the end of the
\* step in which n is processed.
MostRecent(n, i) ==
  LET p == Inputs(n)[i].from
  IN  IF p \in Nodes THEN lastOut'[p][1]
      ELSE IF SourceEmitsTo(n, i) THEN Top.val
      ELSE IF procCount[n] > 0 THEN prevValues[n][1][Inputs(n)[i].name]
      ELSE value[p]

\* C22: a node that has a value from every input is processed once per
\* emission of an input, whether or not the value differs from the one
\* before, and the snapshot of the call holds under every input name the
\* value that input emitted most recently.
OnePerSnapshot ==
  [][\A n \in {"size", "textureRepeat"} :
       /\ (connected[n] /\ connected'[n] /\ procCount[n] > 0)
          => procCount'[n] - procCount[n] = EmissionsFrom(n, 1)
       /\ procCount'[n] # procCount[n]
          => /\ procCount'[n] = procCount[n] + 1
             /\ \A i \in 1..Len(Inputs(n)) :
                  prevValues'[n][1][Inputs(n)[i].name] = MostRecent(n, i)]_vars

\* The tile size was assigned the same value twice: textureRepeat was
\* processed on connecting and once per assignment, the last snapshot
\* holding that tile size and the one output of plainSizeVector.
OnePerSnapshotWitness ==
  /\ stack = <<>>
  /\ accepted["tileSize"] = << 2, 2 >>
  /\ accepted["sizeRaw"] = <<>>
  /\ procCount["textureRepeat"] = 3 /\ procCount["size"] = 1
  /\ prevValues["textureRepeat"][1].tileSize = 2
  /\ prevValues["textureRepeat"][1].size = lastOut["size"][1]
\* Node n has been subscribed and has no application subscriber now.
Unobserved(n) ==
  /\ connected[n]
  /\ \A o \in Apps : ~(status[o] = "sub" /\ target[o] = n)
  /\ \E o \in Apps : status[o] = "closed" /\ target[o] = n

\* The computation process() started for the latest snapshot of n has not
\* produced its value yet.
Pending(n) == \E c \in comps[n] : c.gen = procCount[n]

SchemaInvariant ==
  /\ \A src \in ValueNodes : SchemaAccepts(src, value[src])
  /\ \A o \in Apps :
       target[o] \in ValueNodes
       => \A i \in 1..Len(log[o]) : SchemaAccepts(target[o], Val(o, i))

\* C25: a buildGraph call leaves the data flow as it is (no observer
\* list, connection, process() count, output or buffer changes) and
\* leaves every node's declared inputs as they are; a second call with the
\* same sinks returns what the first returned: the same ids for the same
\* nodes and the same depths.
BuildGraphObservesOnly ==
  /\ [][(graph' # graph \/ regraph' # regraph)
        => flowVars' = flowVars /\ debugInputs' = debugInputs]_vars
  /\ [](regraph # None
        => /\ regraph[1].threw = graph[1].out.threw
           /\ DOMAIN regraph[1].map = DOMAIN graph[1].out.map
           /\ \A id \in DOMAIN regraph[1].map :
                LET a == regraph[1].heap[regraph[1].map[id]]
                    b == graph[1].out.heap[graph[1].out.map[id]]
                IN  a.node = b.node /\ a.depth = b.depth /\ a.id = b.id)

\* The graph of an RxNode read by another was built twice while an observer
\* of the RxNode held an output and the subject had emitted again.
BuildGraphObservesOnlyWitness ==
  /\ regraph # None /\ Built
  /\ Sinks = << 2 >> /\ Producers(2) = {1}
  /\ Infos[InfoOf(1)].depth = 1
  /\ status["o1"] = "sub" /\ Len(log["o1"]) = 2
  /\ procCount["lifted"] = 2

\* C26: a process() call of a node with plain results has its output
\* emitted within the step of the call, to every subscriber of the node;
\* a value the plainSize subject hands to plainSizeVector reaches the
\* subscribers of textureRepeat, two nodes further on, within that step,
\* while the next() call that carries it is still in progress.
PlainIsSynchronous ==
  [][/\ \A n \in {"size", "textureRepeat"} :
          procCount'[n] # procCount[n]
          => /\ lastOut'[n] # None
             /\ lastOut'[n][1].gen = procCount'[n]
             /\ lastOut'[n][1].in = prevValues'[n][1]
             /\ \A o \in Apps :
                  (status[o] = "sub" /\ target[o] = n)
                  => log'[o] = Append(log[o], NextEntry(lastOut'[n]))
     /\ \A o \in Apps :
          (SourceEmitsTo("size", 1) /\ status[o] = "sub"
           /\ target[o] = "textureRepeat")
          => /\ Len(log'[o]) = Len(log[o]) + 1
             /\ log'[o][Len(log'[o])].v[1].in.size.in.sizeRaw = Top.val]_vars

\* plainSize was assigned while an observer watched textureRepeat: when the
\* assignment has returned the observer holds the output computed from the
\* new size.
PlainIsSynchronousWitness ==
  /\ stack = <<>>
  /\ status["o1"] = "sub" /\ target["o1"] = "textureRepeat"
  /\ accepted["sizeRaw"] = << [x |-> 2, y |-> 1] >>
  /\ accepted["tileSize"] = <<>>
  /\ Len(log["o1"]) = 2
  /\ Val("o1", 2).in.size.in.sizeRaw = [x |-> 2, y |-> 1]

\* Computation c of node n has not produced a value.
Hung(n, c) == c \in comps[n] /\ c.k = 0

\* Computation c of node n produces a value in this step: its promise
\* resolves or its stream emits.
Produces(n, c) ==
  \/ Emits(n, c)
  \/ /\ c \in comps[n] /\ c.kind = "promise" /\ c \notin comps'[n]
     /\ c.gen = inner[n] => failures'[n] = failures[n]
     /\ c.gen # inner[n] => dropped'[n] # dropped[n]

\* C27: as long as the computation of a snapshot has produced no value, no
\* observer and no replay buffer holds an output of that snapshot; and
\* when the computation of the latest snapshot produces a value, the value
\* is emitted to every subscriber, whatever computations of earlier
\* snapshots are still without a value.
HungDoesNotBlock ==
  /\ [](\A n \in Nodes : \A c \in comps[n] :
          Hung(n, c)
          => /\ buffer[n] # None => buffer[n][1].gen # c.gen
             /\ \A o \in Apps :
                  target[o] = n
                  => \A i \in 1..Len(log[o]) :
                       IsNext(o, i) => Val(o, i).gen # c.gen)
  /\ [][\A n \in Nodes : \A c \in comps[n] :
          (c.gen = procCount[n] /\ Produces(n, c))
          => /\ buffer'[n] # None
             /\ buffer'[n][1].gen = c.gen /\ buffer'[n][1].in = c.snap
             /\ \A o \in Apps :
                  (status[o] = "sub" /\ target[o] = n)
                  => log'[o] = Append(log[o], NextEntry(buffer'[n]))]_vars

\* The promise of the first snapshot is still without a value; the second
\* snapshot arrived, its promise resolved, and the observer holds its
\* output and nothing else.
HungDoesNotBlockWitness ==
  /\ status["o1"] = "sub" /\ target["o1"] = "textureSet"
  /\ \E c \in comps["textureSet"] :
       c.gen = 1 /\ c.kind = "promise" /\ Hung("textureSet", c)
  /\ procCount["textureSet"] = 2
  /\ Len(log["o1"]) = 1 /\ IsNext("o1", 1)
  /\ Val("o1", 1).gen = 2 /\ Val("o1", 1).in.name = "sand"

\* A rendering node's process() is invoked in this step.
Processes == lastProcess' # lastProcess \/ renderer'.frames # renderer.frames

\* C28: a process() call of PlainNormalNode or PlainDisplacementNode that
\* returns leaves the renderer's current render target as it was before
\* the call, whatever target was current.
ContextLeftAsFound ==
  [][(Processes /\ lastProcess'[1].returned)
     => /\ renderer'.target = renderer.target
        /\ lastProcess'[1].before = renderer.target]_vars

\* The normal node rendered while the render target of other code was
\* current, and that target is current again.
ContextLeftAsFoundWitness ==
  /\ lastProcess # None
  /\ lastProcess[1].node = "normal" /\ lastProcess[1].returned
  /\ lastProcess[1].before = "ground"
  /\ renderer.target = "ground"
  /\ renderer.frames["normal"] = 1

\* The nodes the plain constructs that own GPU resources: the material, the
\* geometry, the render targets of the displacement and the normal node.
GpuOwners == {"material", "geometry"} \cup GpuNodes

\* C29: once the plain's dispose has run, every sink subscription is
\* unsubscribed and dispose() has run on every node of the plain that owns
\* GPU resources.
PlainDisposeRetiresAll ==
  retired
  => /\ \A i \in 1..Len(subscriptions) : subscriptions[i].closed
     /\ GpuOwners \subseteq disposed

\* Some observer has subscribed to node n: an application observer, or a
\* node downstream of n that has itself been subscribed.
Observed(n) ==
  \E o \in Apps :
    /\ status[o] # "idle" /\ target[o] \in Nodes
    /\ n \in {target[o]} \cup Upstream(target[o])

\* C30: a node that no observer has subscribed to, directly or through a
\* node downstream, holds no connection, has subscribed to none of its
\* inputs and has not been processed, whatever its inputs have emitted.
Lazy ==
  /\ \A n \in Nodes : (connected[n] \/ procCount[n] > 0) => Observed(n)
  /\ \A p \in Sources : \A i \in 1..Len(srcObs[p]) :
       srcObs[p][i].node # "" => Observed(srcObs[p][i].node)
  /\ \A m \in Nodes : \A i \in 1..Len(nodeObs[m]) :
       nodeObs[m][i].node # "" => Observed(nodeObs[m][i].node)

\* The tiled texture set has an observer, so the texture set is connected
\* and has emitted; the PipeNode that reads the texture set too has no
\* observer, is not connected and has not been processed.
LazyWitness ==
  /\ status["o1"] = "sub" /\ target["o1"] = "mappedTexture"
  /\ status["o2"] = "idle"
  /\ lastOut["textureSet"] # None /\ lastOut["mappedTexture"] # None
  /\ ~connected["baseDisplacement"] /\ procCount["baseDisplacement"] = 0
  /\ ~\E i \in 1..Len(nodeObs["textureSet"]) :
        nodeObs["textureSet"][i].node = "baseDisplacement"

\* C31: in every map buildGraph returns, each NodeInfo that is an input of
\* another is at least one deeper than it, and computeLayout gives every
\* entry a position whose column is strictly to the left of the columns of
\* the entries that read it.
DepthIncreasesAlongInputs ==
  Built =>
    LET positions == computeLayout(graph[1].out)
    IN  /\ DOMAIN positions = DOMAIN Returned
        /\ \A id \in DOMAIN Returned :
             LET n == Infos[Returned[id]]
             IN  \A i \in 1..Len(n.inputs) :
                   n.inputs[i].info # Null =>
                     LET m == Infos[n.inputs[i].info]
                     IN  /\ m.depth >= n.depth + 1
                         /\ m.id \in DOMAIN positions
                         /\ positions[m.id] < positions[id]

\* Node 1 is read by sink 3 directly and by node 2, which sink 3 reads
\* first: node 1 is visited at depth 2 and then again from the sink.
DepthIncreasesAlongInputsWitness ==
  /\ Built /\ Sinks = << 3 >>
  /\ Len(debugInputs[3]) = 2
  /\ debugInputs[3][1].from = 2 /\ debugInputs[3][2].from = 1
  /\ Producers(2) = {1}
  /\ Infos[InfoOf(1)].depth = 2
  /\ computeLayout(graph[1].out)[Infos[InfoOf(1)].id] = PADDING
  /\ computeLayout(graph[1].out)[Infos[InfoOf(3)].id]
       = 2 * NODE_SPACING_X + PADDING

\* The rake strokes of the scene's current object list.
CurrentRakes == RakesOf(scene, scene.objects)

InList(o) == \E i \in 1..Len(scene.objects) : scene.objects[i] = o

\* C32: a step that changes the scene's object list hands the displacement
\* node one new rakes input, the rake strokes of the new list; a width
\* assignment to a rake stroke of the current list hands it one more, the
\* same list again; a width assignment to a rake stroke that is not in the
\* current list, and any other step, hands it none.
RakesDriveRecomputation ==
  [][ IF scene'.objects # scene.objects
      THEN scene'.rakesIn =
             Append(scene.rakesIn, RakesOf(scene', scene'.objects))
      ELSE IF lastOp'.op = "width" /\ lastOp'.widths # lastOp.widths
                /\ InList(lastOp'.arg)
      THEN scene'.rakesIn = Append(scene.rakesIn, CurrentRakes)
      ELSE scene'.rakesIn = scene.rakesIn ]_vars

\* Two rake strokes were added with one id beside a third; deleting by
\* that id disposed the first and dropped both from the list; the width of
\* the one that was dropped undisposed has just been assigned, after the
\* width of the one still listed.
RakesDriveRecomputationWitness ==
  /\ lastOp.op = "width" /\ lastOp.widths = 2
  /\ ~InList(lastOp.arg) /\ ~scene.made[lastOp.arg].disposed
  /\ Len(CurrentRakes) = 1
  /\ Len(scene.rakesIn) >= 2
  /\ scene.rakesIn[Len(scene.rakesIn)] = CurrentRakes
  /\ scene.rakesIn[Len(scene.rakesIn) - 1] = CurrentRakes

\* The objects, in the scene or deleted, whose highlight is on.
Highlighted ==
  { o \in 1..Len(scene.made) : scene.made[o].highlighted }

\* C33: whatever mouse events, setMode and deleteObject calls the editor
\* has handled, the selected object is null or in the scene's current
\* object list, at most one object is highlighted, and the highlighted
\* objects are exactly the selected one (none when nothing is selected).
SelectionInvariant ==
  /\ editor.selected = NoObject \/ InList(editor.selected)
  /\ Cardinality(Highlighted) <= 1
  /\ Highlighted = {editor.selected} \ {NoObject}

\* An object is selected and highlighted in a scene that holds an object
\* the editor added, after the editor deleted an object that shared its id
\* with another.
SelectionInvariantWitness ==
  /\ editor.selected # NoObject
  /\ Highlighted = {editor.selected}
  /\ \E a \in 1..Len(scene.made) : scene.made[a].id >= 10 /\ InList(a)
  /\ \E o, p \in 1..Len(scene.made) :
       /\ o # p
       /\ scene.made[o].id = scene.made[p].id
       /\ ~InList(o) /\ ~InList(p)
       /\ scene.made[o].disposed /\ ~scene.made[p].disposed

\* One object of the type the mode names was constructed and put at the
\* end of the object list, the mode is null, and the selected object, the
\* drag and the objects there were (their highlight too) are as before.
AddedOne ==
  /\ Len(scene'.made) = Len(scene.made) + 1
  /\ SubSeq(scene'.made, 1, Len(scene.made)) = scene.made
  /\ scene'.made[Len(scene'.made)].type
       = (IF editor.mode = "addRock" THEN "rock" ELSE "moss")
  /\ scene'.objects = Append(scene.objects, Len(scene'.made))
  /\ editor'.mode = "null"
  /\ editor'.selected = editor.selected
  /\ editor'.dragging = editor.dragging

\* No object was constructed and the object list is as before.
AddedNone ==
  /\ Len(scene'.made) = Len(scene.made)
  /\ scene'.objects = scene.objects

\* C34: a mousedown that reaches the plane while the mode is addRock or
\* addMoss constructs one object, of the type the mode names, at the end of
\* the scene's object list, sets the mode to null, and leaves the selected
\* object, the drag and every highlight as they were; a mousedown while the
\* mode is null constructs no object and leaves the object list as it was.
AddModeOneShot ==
  [][ \A pos \in Positions \cup {NoPos} :
        /\ (editor.mode # "null" /\ pos # NoPos)
             => (AddedOne \/ ~MouseDown(pos))
        /\ editor.mode = "null" => (AddedNone \/ ~MouseDown(pos)) ]_vars

\* A moss added by the editor lies at one point, the mode is null again,
\* and the object selected at another point is still selected and dragged.
AddModeOneShotWitness ==
  /\ editor.mode = "null"
  /\ editor.selected # NoObject /\ editor.dragging # None
  /\ editor.dragging[1].object = editor.selected
  /\ \E a \in 1..Len(scene.made) :
       /\ scene.made[a].id >= 10 /\ scene.made[a].type = "moss"
       /\ InList(a) /\ a # editor.selected
       /\ scene.made[a].position # scene.made[editor.selected].position

\* The geometries the geometry node has made (one per process() call),
\* and those of them that are not disposed.
Made == 1..procCount["geometry"]
Live == Made \ geo.disposed

\* The geometry of the node's latest emission.
Emitted == lastOut["geometry"][1].gen

\* C35: the geometry node owns at most one undisposed geometry; a
\* process() call disposes the geometry made by the call before it and
\* makes a new one, undisposed; every geometry a subscriber is handed is
\* undisposed when handed over unless dispose() has run; and the geometry
\* of the latest emission becomes disposed only in a step in which
\* process() or dispose() runs.
SingleLiveGeometry ==
  /\ [](Cardinality(Live) <= 1)
  /\ [][ procCount'["geometry"] # procCount["geometry"] =>
           /\ Made \subseteq geo'.disposed
           /\ geo'.current = procCount'["geometry"]
           /\ geo'.current \notin geo'.disposed ]_vars
  /\ [][ \A o \in Apps :
           (target[o] = "geometry" /\ Len(log'[o]) > Len(log[o])) =>
             \A i \in (Len(log[o]) + 1)..Len(log'[o]) :
               log'[o][i].t = "next" =>
                 \/ log'[o][i].v[1].gen \notin geo'.disposed
                 \/ "geometry" \in disposed' ]_vars
  /\ [][ ( /\ lastOut["geometry"] # None
           /\ Emitted \notin geo.disposed
           /\ Emitted \in geo'.disposed )
         => \/ procCount'["geometry"] # procCount["geometry"]
            \/ Dispose("geometry") ]_vars

\* The node has run process() three times for two observers; the first
\* two geometries are disposed, the third is the one last emitted, and
\* dispose() has not run.
SingleLiveGeometryWitness ==
  /\ procCount["geometry"] = 3
  /\ geo.disposed = {1, 2} /\ geo.current = 3
  /\ lastOut["geometry"] # None /\ Emitted = 3
  /\ "geometry" \notin disposed
  /\ \A o \in Apps : target[o] = "geometry" /\ Len(log[o]) >= 2

\* C36: the node constructed without inputs has made no process() call and
\* no emission, and no observer subscribed to it has been handed a value.
NoInputsNeverRuns ==
  /\ procCount["noInputs"] = 0
  /\ prevValues["noInputs"] = None
  /\ lastOut["noInputs"] = None /\ buffer["noInputs"] = None
  /\ \A o \in Apps :
       target[o] = "noInputs" =>
         \A i \in 1..Len(log[o]) : log[o][i].t # "next"

\* Both observers have subscribed to the node without inputs, one after
\* the other, and each was completed at once.
NoInputsNeverRunsWitness ==
  \A o \in Apps :
    /\ target[o] = "noInputs" /\ status[o] = "closed"
    /\ log[o] = << [t |-> "complete", v |-> None] >>

====
